---- MODULE Spec2Model ----
(***************************************************************************)
(* Exploit analysis pipeline of the A1 agent MCP server.                   *)
(*                                                                         *)
(* The module models McpServer.startAnalysis / executeAnalysisPipeline     *)
(* (server/mcp/server.ts), the execution stage ConcreteExecution.execute   *)
(* (server/mcp/tools/concrete-execution.ts), the harness ForgeService      *)
(* (services/forge) and the session / tool-execution / discovery tables of *)
(* the storage layer.  Every await of the code is a step of the model: a   *)
(* session's pc names the call it is waiting for, and the action named     *)
(* after that call is the call settling (returning or throwing) together   *)
(* with the synchronous code that runs up to the next await.               *)
(***************************************************************************)
EXTENDS Integers, Sequences, FiniteSets, TLC

\* The sessions created by POST /api/mcp/sessions; two run concurrently.
Sessions == {"s1", "s2"}

\* ----------------------------------------------------------------- bounds
\* Most signature matches of one category in a source text.
MaxMatches == 1
\* Most protective-signature matches in a source text.
MaxProt == 1
\* Most calls of POST /api/tools/execute/:toolName.
MaxDirect == 1
\* Most signature matches of one category, and most protective-signature
\* matches, in a source text given to ConcreteExecution.execute on its own.
ScanMaxMatches == 3
ScanMaxProt == 4
\* Most categories with a signature match in such a source text.
ScanMaxKinds == 3
\* Most extracted tokens in a call of RevenueNormalizer.execute.
MaxTokens == 2

\* -------------------------------------------------------------- constants
BaseConfidence == 30
MatchStep == 10
MatchCap == 30
ProtStep == 5
ProtCap == 20
ConfMax == 95
ConfMin == 5
SimThresholdBase == 60
SimThresholdSpan == 20
SimDefaultConfidence == 50
SimBaseGas == 100000
SimGasSpan == 200000
SimProfitBase == 100000
SimProfitSpan == 1000000

Min(a, b) == IF a < b THEN a ELSE b
Max(a, b) == IF a > b THEN a ELSE b

\* ------------------------------------------------------------- the scanner
\* The categories in the declaration order of `patterns`, which is the order
\* Object.entries iterates and so the order of the findings.
Kinds == << "reentrancy", "integerOverflow", "accessControl", "delegateCall",
            "uncheckedCall", "priceOracle", "flashLoan" >>

KindSet == { Kinds[i] : i \in 1..Len(Kinds) }

\* typeMultipliers looked up with a key that is never found: every kind gets
\* the default of `typeMultipliers[type] || 1.0`.
TypeMultiplier10_Default(type) == 10

\* typeMultipliers, times ten.
TypeMultiplier10(type) ==
    CASE type = "reentrancy" -> 15
      [] type = "delegateCall" -> 18
      [] type = "accessControl" -> 12
      [] type = "integerOverflow" -> 11
      [] type = "priceOracle" -> 14
      [] type = "uncheckedCall" -> 10
      [] type = "flashLoan" -> 13
      [] OTHER -> 10

PatternSeverity(type) ==
    CASE type = "reentrancy" -> "critical"
      [] type = "integerOverflow" -> "high"
      [] type = "accessControl" -> "high"
      [] type = "delegateCall" -> "critical"
      [] type = "uncheckedCall" -> "medium"
      [] type = "priceOracle" -> "high"
      [] type = "flashLoan" -> "medium"

\* calculateConfidence with Math.max and Math.min exchanged in its last line.
calculateConfidence_ClampSwapped(type, matches, protectionCount) ==
    LET base == (BaseConfidence * TypeMultiplier10(type)) \div 10
        withMatches == base + Min(matches * MatchStep, MatchCap)
        withProt == withMatches - Min(protectionCount * ProtStep, ProtCap)
    IN  Min(Max(withProt, ConfMax), ConfMin)

\* calculateConfidence(type, matches, sourceCode); protectionCount is the
\* number of protective-pattern matches in sourceCode.
calculateConfidence(type, matches, protectionCount) ==
    LET base == (BaseConfidence * TypeMultiplier10(type)) \div 10
        withMatches == base + Min(matches * MatchStep, MatchCap)
        withProt == withMatches - Min(protectionCount * ProtStep, ProtCap)
    IN  Max(Min(withProt, ConfMax), ConfMin)

\* A source text, as the scanner sees it: the number of matches of every
\* category's signature and of the protective signatures.
Sources == [ m : [1..Len(Kinds) -> 0..MaxMatches], p : 0..MaxProt ]

\* The source texts the sessions analyse: those whose only signatures are
\* delegatecall and an unchecked .call(), guarded or not.
\* The source texts given to ConcreteExecution.execute on its own.
ScanSources ==
    { src \in [ m : [1..Len(Kinds) -> 0..ScanMaxMatches], p : 0..ScanMaxProt ] :
        Cardinality({ i \in 1..Len(Kinds) : src.m[i] > 0 }) <= ScanMaxKinds }

PipelineKinds == { "delegateCall", "uncheckedCall" }
PipelineSources ==
    { src \in Sources : \A i \in 1..Len(Kinds) :
                            src.m[i] > 0 => Kinds[i] \in PipelineKinds }

RECURSIVE FindingsFrom(_, _)
FindingsFrom(src, i) ==
    IF i > Len(Kinds) THEN << >>
    ELSE (IF src.m[i] > 0
          THEN << [ type |-> Kinds[i],
                    severity |-> PatternSeverity(Kinds[i]),
                    matches |-> src.m[i],
                    confidence |-> calculateConfidence(Kinds[i], src.m[i], src.p) ] >>
          ELSE << >>) \o FindingsFrom(src, i + 1)

\* analyzeForVulnerabilities(sourceCode).vulnerabilities
analyzeForVulnerabilities(src) == FindingsFrom(src, 1)

\* The factor, times ten, a kind's generator applies to the finding's
\* confidence.
GeneratorFactor10(type) ==
    CASE type = "accessControl" -> 8
      [] type = "integerOverflow" -> 7
      [] type = "uncheckedCall" -> 6
      [] OTHER -> 10

GeneratorSeverity(type) ==
    CASE type = "reentrancy" -> "critical"
      [] type = "delegateCall" -> "critical"
      [] type = "accessControl" -> "high"
      [] type = "integerOverflow" -> "high"
      [] type = "priceOracle" -> "high"
      [] type = "uncheckedCall" -> "medium"
      [] type = "flashLoan" -> "medium"

\* generateExploitStrategy(vulnerability): confidence10 is the strategy's
\* confidence in tenths.
generateExploitStrategy(v) ==
    [ type |-> v.type,
      severity |-> GeneratorSeverity(v.type),
      confidence10 |-> v.confidence * GeneratorFactor10(v.type) ]

exploitStrategies(vulns) == [ i \in 1..Len(vulns) |-> generateExploitStrategy(vulns[i]) ]

\* exploitStrategies.reduce((best, current) =>
\*     current.confidence > best.confidence ? current : best)
RECURSIVE ReduceBest(_, _, _)
ReduceBest(strategies, i, best) ==
    IF i > Len(strategies) THEN best
    ELSE ReduceBest(strategies, i + 1,
                    IF strategies[i].confidence10 > best.confidence10
                    THEN strategies[i] ELSE best)

\* The reduce with >= for >: of two equal confidences the later one is kept.
RECURSIVE ReduceBest_LastWins(_, _, _)
ReduceBest_LastWins(strategies, i, best) ==
    IF i > Len(strategies) THEN best
    ELSE ReduceBest_LastWins(strategies, i + 1,
                             IF strategies[i].confidence10 >= best.confidence10
                             THEN strategies[i] ELSE best)

bestStrategy_LastWins(strategies) == ReduceBest_LastWins(strategies, 2, strategies[1])

bestStrategy(strategies) == ReduceBest(strategies, 2, strategies[1])

\* The position of a kind in `patterns`.
KindIndex(type) == CHOOSE i \in 1..Len(Kinds) : Kinds[i] = type

\* The strategy lists the loop of lines 54 to 66 can hand to the reduce, as
\* far as their order goes: one strategy for each kind of a set of kinds, in
\* the order of `patterns`.  The confidences are any of two values, so that
\* strategies of equal confidence meet.
ListConfidences10 == { 240, 640 }

RECURSIVE StrategiesOf(_, _)
StrategiesOf(conf, i) ==
    IF i > Len(Kinds) THEN << >>
    ELSE (IF conf[i] = 0 THEN << >>
          ELSE << [ type |-> Kinds[i],
                    severity |-> GeneratorSeverity(Kinds[i]),
                    confidence10 |-> conf[i] ] >>) \o StrategiesOf(conf, i + 1)

StrategyLists ==
    { StrategiesOf(conf, 1) :
        conf \in { c \in [1..Len(Kinds) -> {0} \cup ListConfidences10] :
                      \E i \in 1..Len(Kinds) : c[i] # 0 } }

\* -------------------------------------------------------------- the harness
\* Math.random() draws of simulateExploitTest: the success threshold
\* 60 + random * 20 in tenths by its extreme values, the gas by its largest
\* value, the profit by its smallest and its largest.  The threshold is a double: for the four largest
\* values of Math.random() the sum rounds to 80 itself.
RandomThresholds10 ==
    { SimThresholdBase * 10, (SimThresholdBase + SimThresholdSpan) * 10 - 1,
      (SimThresholdBase + SimThresholdSpan) * 10 }
RandomGas == { SimBaseGas + SimGasSpan - 1 }
RandomProfit == { SimProfitBase, SimProfitBase + SimProfitSpan - 1 }

SimTraceSuccess == << "testExploit", "deposit", "ok", "withdraw", "ok", "ok" >>
SimTraceFailure == << "testExploit", "deposit", "revert", "revert" >>

\* simulateExploitTest with a threshold between 50 and 70.
simulateExploitTest_LowThreshold(strategy, threshold10, gas, profitDraw) ==
    LET success == strategy.confidence10 > threshold10 - 100
    IN  [ success |-> success,
          gasUsed |-> gas,
          profit |-> IF success THEN profitDraw ELSE 0,
          extractedTokens |-> << >>,
          trace |-> << >>,
          errorMessage |-> IF success THEN "null"
                           ELSE "Exploit failed during execution",
          simulationNote |-> "This is a simulated result - Forge not available" ]

\* simulateExploitTest(params), with its three random draws as arguments.
\* amount10 is a token's amount, profit * 0.6 or profit * 0.4, in tenths.
simulateExploitTest(strategy, threshold10, gas, profitDraw) ==
    LET confidence10 == IF strategy.confidence10 = 0
                        THEN SimDefaultConfidence * 10
                        ELSE strategy.confidence10
        success == confidence10 > threshold10
    IN  [ success |-> success,
          gasUsed |-> gas,
          profit |-> IF success THEN profitDraw ELSE 0,
          extractedTokens |->
              IF success
              THEN << [ address |-> "0xA0b8", symbol |-> "USDC",
                        amount10 |-> profitDraw * 6 ],
                      [ address |-> "0xdAC1", symbol |-> "USDT",
                        amount10 |-> profitDraw * 4 ] >>
              ELSE << >>,
          trace |-> IF success THEN SimTraceSuccess ELSE SimTraceFailure,
          errorMessage |-> IF success THEN "null"
                           ELSE "Exploit failed during execution",
          simulationNote |-> "This is a simulated result - Forge not available" ]

\* parseForgeOutput(stdout, stderr) of a forge run that exited with code 0;
\* pass is stdout.includes('[PASS]') && !stdout.includes('[FAIL]').
parseForgeOutput(pass) ==
    [ success |-> pass,
      gasUsed |-> IF pass THEN 21000 ELSE 0,
      profit |-> IF pass THEN 1 ELSE 0,
      extractedTokens |-> << >>,
      trace |-> IF pass THEN << "testExploit" >> ELSE << >>,
      fullOutput |-> "stdout",
      errors |-> "stderr" ]

\* The result runForgeTest returns from its catch block.
runForgeTestFailure(message) ==
    [ success |-> FALSE,
      errorMessage |-> message,
      gasUsed |-> 0,
      profit |-> 0,
      extractedTokens |-> << >>,
      trace |-> << >> ]

\* A property of a JavaScript object that was never set reads undefined.
Field(r, name) == IF name \in DOMAIN r THEN r[name] ELSE "undefined"

\* executeExploitStrategy, when forge.testExploit returned testResult.
executeExploitStrategyReturn(testResult) ==
    [ success |-> testResult.success,
      gasUsed |-> testResult.gasUsed,
      profit |-> testResult.profit,
      extractedTokens |-> testResult.extractedTokens,
      trace |-> testResult.trace,
      errorMessage |-> Field(testResult, "errorMessage") ]

\* executeExploitStrategy with a catch block that drops the error's message.
executeExploitStrategyCatch_NoMessage(message) ==
    [ success |-> FALSE,
      errorMessage |-> "undefined",
      gasUsed |-> 0,
      profit |-> 0,
      extractedTokens |-> << >>,
      trace |-> << >> ]

\* executeExploitStrategy, when forge.testExploit threw an error.
executeExploitStrategyCatch(message) ==
    [ success |-> FALSE,
      errorMessage |-> message,
      gasUsed |-> 0,
      profit |-> 0,
      extractedTokens |-> << >>,
      trace |-> << >> ]

\* What ConcreteExecution.execute returns when the scan found nothing.
executeNoVulnerabilities ==
    [ exploitFound |-> FALSE,
      message |-> "No obvious vulnerabilities detected in source code" ]

\* ConcreteExecution.execute reporting every executed strategy as found.
executeReturn_AlwaysFound(best, executionResult) ==
    [ exploitFound |-> TRUE,
      exploitType |-> best.type,
      severity |-> best.severity,
      confidence10 |-> best.confidence10,
      extractedTokens |-> executionResult.extractedTokens,
      gasUsed |-> executionResult.gasUsed,
      executionDetails |-> executionResult ]

\* What ConcreteExecution.execute returns after running bestStrategy.
executeReturn(best, executionResult) ==
    [ exploitFound |-> executionResult.success,
      exploitType |-> best.type,
      severity |-> best.severity,
      confidence10 |-> best.confidence10,
      extractedTokens |-> executionResult.extractedTokens,
      gasUsed |-> executionResult.gasUsed,
      executionDetails |-> executionResult ]

\* ------------------------------------------------------------ the pipeline
\* The stages of executeAnalysisPipeline, in the order of its statements.
Stages == << "source_code_fetcher", "constructor_parameters", "state_reader",
             "code_sanitizer", "concrete_execution", "revenue_normalizer",
             "createExploitDiscovery" >>

\* Step 6 entered unconditionally.
proceedsToRevenue_Always(exploitResult) == TRUE

\* Step 6 entered whenever a strategy was executed, successful or not.
proceedsToRevenue_Executed(exploitResult) == "executionDetails" \in DOMAIN exploitResult

\* if (exploitResult.exploitFound) { ... }
proceedsToRevenue(exploitResult) == exploitResult.exploitFound

NoResult == [ none |-> TRUE ]

\* The source text without any signature.
NoSource == [ m |-> [i \in 1..Len(Kinds) |-> 0], p |-> 0 ]

\* ---------------------------------------------------------- the price oracle
\* Money is counted in whole units: US dollars in mills (thousandths of a
\* dollar), ether in tenths of a microether, gas cost in gwei, a price impact
\* in basis points.

\* ethers.formatUnits and the products of normalizeToken shift a decimal
\* number by a power of ten; a shift to the right drops what falls below the
\* unit.
RECURSIVE shift10(_, _)
shift10(x, n) ==
    IF n = 0 THEN x
    ELSE IF n > 0 THEN shift10(x * 10, n - 1)
    ELSE shift10(x \div 10, n + 1)

\* Number(x.toFixed(digits)) of a number given in units of which `unit` make
\* up one step of the last digit kept: the nearest step, a half away from
\* zero.
toFixed(x, unit) ==
    IF x >= 0 THEN ((x + unit \div 2) \div unit) * unit
    ELSE 0 - (((0 - x) + unit \div 2) \div unit) * unit

\* A JavaScript number holding an amount of whole cents that was summed up:
\* the double nearest to the decimal amount `mills`, moved by `ulps` units in
\* the last place.
Double(mills, ulps) == [ mills |-> mills, ulps |-> ulps ]

\* The sums of two doubles, among the amounts 0.00, 0.10 and 0.20 added up
\* to four times, that are not the double nearest to the decimal sum (IEEE
\* 754, round to nearest even): << sum so far, its ulps, the amount added,
\* the ulps of the result >>.  0.1 + 0.2 is 0.30000000000000004.
InexactSums ==
    { << 100, 0, 200, 1 >>, << 200, 0, 100, 1 >>, << 300, 1, 0, 1 >>,
      << 400, 0, 200, 1 >>, << 600, 1, 0, 1 >>, << 600, 1, 100, 1 >>,
      << 700, 0, 100, -1 >>, << 700, 0, 200, -1 >>, << 700, 1, 0, 1 >>,
      << 700, 1, 200, 1 >> }

\* total += value, for a value of whole cents.
addDouble(total, value) ==
    LET hit == { e \in InexactSums :
                   e[1] = total.mills /\ e[2] = total.ulps /\ e[3] = value }
    IN  Double(total.mills + value,
               IF hit = {} THEN 0 ELSE (CHOOSE e \in hit : TRUE)[4])

\* a - b > 0 for a summed double a and an amount b of whole cents: the
\* difference of two doubles has the sign of their order.
DoublePositive(a, b) == a.mills > b \/ (a.mills = b /\ a.ulps > 0)

\* The fallback of getNativeTokenPrice for chain 1, in dollars.
FallbackNativePrice == 3000
\* The native token prices getNativeTokenPrice answers with: the ETH/USD feed
\* stands at the price that is also the fallback.
NativePrices == { FallbackNativePrice }

\* Token addresses as strings of hex digits: the digits and whether some
\* letter is written in upper case.
Address(hex, mixedCase) == [ hex |-> hex, mixedCase |-> mixedCase ]
toLowerCase(address) == [ address EXCEPT !.mixedCase = FALSE ]

UsdcAddress == Address("a0b86a33e6441e1c4b37d8c5c7e48a16c1111111", TRUE)
UsdtAddress == Address("dac17f958d2ee523a2206206994597c13d831ec7", TRUE)
DaiAddress == Address("6b175474e89094c44da98b954eedeac495271d0f", TRUE)
\* A token that has no feed.
TokenAddress == Address("c011a73d831ba6f5f4a6b0a4e1b3c7e0d5f6a7b8", FALSE)

\* The keys of tokenFeeds[1], written in mixed case.
TokenFeeds == { UsdcAddress, UsdtAddress, DaiAddress }

\* getTokenPriceFromChainlink on chain 1: the address is looked up in lower
\* case; without a feed the call throws, with one it answers the feed.
getTokenPriceFromChainlink(address, feedPrice) ==
    IF toLowerCase(address) \in TokenFeeds
    THEN [ threw |-> FALSE, price |-> feedPrice ]
    ELSE [ threw |-> TRUE, price |-> 0 ]

\* What getTokenPriceFromDEX returns for a pair of price priceUSD (mills) and
\* liquidity liquidityUSD (dollars): the price impact is that of a trade of
\* one percent of the liquidity, at most ten percent (NaN, which is falsy
\* like 0, without liquidity).
ImpactCapBp == 1000
getTokenPriceFromDEX(priceUSD, liquidityUSD) ==
    [ threw |-> FALSE,
      priceUSD |-> priceUSD,
      liquidityUSD |-> liquidityUSD,
      priceImpact |-> IF liquidityUSD = 0 THEN 0
                      ELSE Min((liquidityUSD * 100) \div liquidityUSD, ImpactCapBp) ]

\* getTokenPriceFromDEX throwing: no router, no pair or a failed call.
DexThrows == [ threw |-> TRUE, priceUSD |-> 0, liquidityUSD |-> 0, priceImpact |-> 0 ]

ChainlinkConfidence == 40
DexConfidence == 30
NativeConfidence == 20
LiquidityConfidence == 10
SourcesConfidence == 10
ConfidenceCap == 100
ConfidenceLiquidity == 1000000

\* getTokenPrice without the addition for deep liquidity.
getTokenPrice_NoLiquidityBonus(address, feedPrice, dex, native) ==
    LET byDex == ~dex.threw /\ dex.priceUSD > 0
    IN  [ priceUSD |-> IF byDex THEN dex.priceUSD ELSE 0,
          priceETH |-> IF byDex THEN (dex.priceUSD * 10000) \div native ELSE 0,
          liquidityUSD |-> IF byDex THEN dex.liquidityUSD ELSE 0,
          priceImpact |-> IF byDex THEN dex.priceImpact ELSE 0,
          sources |-> IF byDex THEN << "DEX" >> ELSE << >>,
          confidence |-> IF byDex THEN DexConfidence + NativeConfidence ELSE 0 ]

\* getTokenPrice leaving the DEX aside once the Chainlink branch has thrown.
getTokenPrice_Sequential(address, feedPrice, dex, native) ==
    [ priceUSD |-> 0, priceETH |-> 0, liquidityUSD |-> 0, priceImpact |-> 0,
      sources |-> << >>, confidence |-> 0 ]

\* getTokenPrice without the conversion to the native token.
getTokenPrice_NoConversion(address, feedPrice, dex, native) ==
    LET byDex == ~dex.threw /\ dex.priceUSD > 0
    IN  [ priceUSD |-> IF byDex THEN dex.priceUSD ELSE 0,
          priceETH |-> 0,
          liquidityUSD |-> IF byDex THEN dex.liquidityUSD ELSE 0,
          priceImpact |-> IF byDex THEN dex.priceImpact ELSE 0,
          sources |-> IF byDex THEN << "DEX" >> ELSE << >>,
          confidence |-> IF ~byDex THEN 0
                         ELSE IF dex.liquidityUSD > ConfidenceLiquidity
                         THEN DexConfidence + LiquidityConfidence
                         ELSE DexConfidence ]

\* getTokenPrice(tokenAddress, chainId, blockNumber), given what the feed
\* would answer, what the DEX answers and the native token price.
getTokenPrice(address, feedPrice, dex, native) ==
    LET chainlink == getTokenPriceFromChainlink(address, feedPrice)
        byChainlink == ~chainlink.threw /\ chainlink.price > 0
        byDex == ~dex.threw /\ dex.priceUSD > 0
        priceUSD == IF byChainlink /\ byDex
                    THEN (chainlink.price + dex.priceUSD) \div 2
                    ELSE IF byChainlink THEN chainlink.price
                    ELSE IF byDex THEN dex.priceUSD
                    ELSE 0
        liquidityUSD == IF byDex THEN dex.liquidityUSD ELSE 0
        sources == (IF byChainlink THEN << "Chainlink" >> ELSE << >>)
                   \o (IF byDex THEN << "DEX" >> ELSE << >>)
        confidence == (IF byChainlink THEN ChainlinkConfidence ELSE 0)
                      + (IF byDex THEN DexConfidence ELSE 0)
                      + (IF priceUSD > 0 THEN NativeConfidence ELSE 0)
                      + (IF liquidityUSD > ConfidenceLiquidity
                         THEN LiquidityConfidence ELSE 0)
                      + (IF Len(sources) > 1 THEN SourcesConfidence ELSE 0)
    IN  [ priceUSD |-> priceUSD,
          priceETH |-> IF priceUSD > 0 THEN (priceUSD * 10000) \div native ELSE 0,
          liquidityUSD |-> liquidityUSD,
          priceImpact |-> IF byDex THEN dex.priceImpact ELSE 0,
          sources |-> sources,
          confidence |-> Min(confidence, ConfidenceCap) ]

DefaultDecimals == 18

\* One call of Promise.allSettled in getTokenMetadata.
Fulfilled(value) == [ fulfilled |-> TRUE, value |-> value ]
Rejected == [ fulfilled |-> FALSE ]

\* getTokenMetadata(tokenAddress, chainId), given how the calls of symbol()
\* and of decimals() settled.
getTokenMetadata(symbol, decimals) ==
    [ symbol |-> IF symbol.fulfilled THEN symbol.value ELSE "UNKNOWN",
      decimals |-> IF decimals.fulfilled THEN decimals.value ELSE DefaultDecimals ]

\* ------------------------------------------------------- the revenue normalizer
HighLiquidity == 1000000
MediumLiquidity == 100000
LowLiquidity == 10000

\* assessLiquidity with >= for >.
assessLiquidity_Inclusive(liquidityUSD) ==
    IF liquidityUSD >= HighLiquidity THEN "high"
    ELSE IF liquidityUSD >= MediumLiquidity THEN "medium"
    ELSE IF liquidityUSD >= LowLiquidity THEN "low"
    ELSE "very-low"

assessLiquidity(liquidityUSD) ==
    IF liquidityUSD > HighLiquidity THEN "high"
    ELSE IF liquidityUSD > MediumLiquidity THEN "medium"
    ELSE IF liquidityUSD > LowLiquidity THEN "low"
    ELSE "very-low"

\* A token amount: the string of an integer, digits followed by zeros, or a
\* string that is no integer, such as "659999.4".
Amount(digits, zeros) == [ integer |-> TRUE, digits |-> digits, zeros |-> zeros ]
MalformedAmount == [ integer |-> FALSE, digits |-> 0, zeros |-> 0 ]

\* An extracted token as the caller gives it; symbol "" and decimals 0 stand
\* for a property that is absent, which the code treats alike.
Token(address, amount, symbol, decimals) ==
    [ address |-> address, amount |-> amount, symbol |-> symbol,
      decimals |-> decimals ]

\* if (!tokenMetadata.symbol || !tokenMetadata.decimals)
needsMetadata(token) == token.symbol = "" \/ token.decimals = 0

\* ethers.formatUnits(token.amount, decimals) throws on a string that is no
\* integer.
formatUnitsError == "invalid BigNumberish string"

\* normalizeToken(token, chainId, blockNumber), for an amount that parses:
\* lookup is what getTokenMetadata returned (used when the token lacks symbol
\* or decimals), priceData what getTokenPrice returned.
normalizeToken(token, lookup, priceData) ==
    LET tokenMetadata == IF needsMetadata(token) THEN lookup
                         ELSE [ symbol |-> token.symbol, decimals |-> token.decimals ]
        decimals == IF tokenMetadata.decimals = 0 THEN DefaultDecimals
                    ELSE tokenMetadata.decimals
        valueUSD == shift10(token.amount.digits * priceData.priceUSD,
                            token.amount.zeros - decimals)
        valueETH == shift10(token.amount.digits * priceData.priceETH,
                            token.amount.zeros - decimals)
    IN  [ address |-> token.address,
          symbol |-> tokenMetadata.symbol,
          decimals |-> decimals,
          amount |-> token.amount,
          priceUSD |-> priceData.priceUSD,
          priceETH |-> priceData.priceETH,
          valueUSD |-> toFixed(valueUSD, 10),
          valueETH |-> toFixed(valueETH, 10),
          liquidity |-> assessLiquidity(priceData.liquidityUSD),
          liquidityUSD |-> priceData.liquidityUSD,
          priceImpact |-> priceData.priceImpact,
          sources |-> priceData.sources,
          confidence |-> priceData.confidence ]

\* The catch block of the token loop without the error property.
normalizeTokenCatch_NoError(token, message) ==
    [ address |-> token.address, amount |-> token.amount,
      symbol |-> token.symbol, decimals |-> token.decimals,
      valueUSD |-> 0, valueETH |-> 0, priceUSD |-> 0, priceETH |-> 0,
      liquidity |-> "unknown" ]

\* The entry the catch block of the token loop pushes, lines 61 to 69.
normalizeTokenCatch(token, message) ==
    [ address |-> token.address, amount |-> token.amount,
      symbol |-> token.symbol, decimals |-> token.decimals,
      valueUSD |-> 0, valueETH |-> 0, priceUSD |-> 0, priceETH |-> 0,
      error |-> message,
      liquidity |-> "unknown" ]

\* The gas arguments; gasUsed 0 and gasPrice 0 stand for absent ones.
Gas(gasUsed, gasPrice) == [ gasUsed |-> gasUsed, gasPrice |-> gasPrice ]

\* calculateGasCosts reporting the cost in dollars as computed, not rounded.
calculateGasCosts_Unrounded(gasUsed, gasPrice, nativeTokenPrice) ==
    IF gasUsed = 0 \/ gasPrice = 0 \/ nativeTokenPrice = 0
    THEN [ gasUsed |-> gasUsed, gasPrice |-> gasPrice, costETH |-> 0,
           costUSD |-> 0, estimated |-> TRUE ]
    ELSE [ gasUsed |-> gasUsed, gasPrice |-> gasPrice,
           costETH |-> toFixed((gasUsed * gasPrice) \div 100, 10),
           costUSD |-> shift10(gasUsed * gasPrice * nativeTokenPrice, -6),
           estimated |-> FALSE ]

\* calculateGasCosts(gasUsed, gasPrice, nativeTokenPrice): gasPrice in gwei,
\* nativeTokenPrice in dollars.
calculateGasCosts(gasUsed, gasPrice, nativeTokenPrice) ==
    IF gasUsed = 0 \/ gasPrice = 0 \/ nativeTokenPrice = 0
    THEN [ gasUsed |-> gasUsed, gasPrice |-> gasPrice, costETH |-> 0,
           costUSD |-> 0, estimated |-> TRUE ]
    ELSE [ gasUsed |-> gasUsed, gasPrice |-> gasPrice,
           costETH |-> toFixed((gasUsed * gasPrice) \div 100, 10),
           costUSD |-> toFixed(shift10(gasUsed * gasPrice * nativeTokenPrice, -6), 10),
           estimated |-> FALSE ]

\* toFixed(digits) of a quotient a / b, in units of the last digit kept.
RECURSIVE pow10(_)
pow10(n) == IF n = 0 THEN 1 ELSE 10 * pow10(n - 1)

quotientToFixed(a, b, digits) ==
    LET n == (IF a >= 0 THEN a ELSE 0 - a) * pow10(digits)
        q == (2 * n + b) \div (2 * b)
    IN  IF a >= 0 THEN q ELSE 0 - q

HighImpactBp == 500
LowProfit == 1000000
VeryLowProfit == 100000

\* assessRiskLevel(tokens, netProfitUSD), netProfitUSD in mills.
assessRiskLevel(tokens, netProfitUSD) ==
    LET count(P(_)) == Cardinality({ i \in 1..Len(tokens) : P(tokens[i]) })
        lowLiquidity(t) == t.liquidity \in {"very-low", "low"}
        highImpact(t) == "priceImpact" \in DOMAIN t /\ t.priceImpact > HighImpactBp
        unknown(t) == ("error" \in DOMAIN t /\ t.error # "") \/ t.symbol = ""
        riskScore == count(lowLiquidity) * 2 + count(highImpact) * 3
                     + count(unknown) * 4
                     + (IF netProfitUSD < LowProfit THEN 2 ELSE 0)
                     + (IF netProfitUSD < VeryLowProfit THEN 3 ELSE 0)
    IN  IF riskScore >= 8 THEN "very-high"
        ELSE IF riskScore >= 5 THEN "high"
        ELSE IF riskScore >= 2 THEN "medium"
        ELSE "low"

\* What RevenueNormalizer.execute returns, lines 73 to 100: totalValueUSD is
\* the summed double, totalValueETH the sum in tenths of a microether.
normalizerReturn(tokens, normalizedTokens, totalValueUSD, totalValueETH, gasCosts) ==
    LET netProfitUSD == totalValueUSD.mills - gasCosts.costUSD
        netProfitETH == totalValueETH - gasCosts.costETH
    IN  [ extractedTokens |-> normalizedTokens,
          totalValueUSD |-> toFixed(totalValueUSD.mills, 10),
          totalValueETH |-> toFixed(totalValueETH, 10),
          gasCosts |-> gasCosts,
          netProfitUSD |-> toFixed(netProfitUSD, 10),
          netProfitETH |-> toFixed(netProfitETH, 10),
          isProfitable |-> DoublePositive(totalValueUSD, gasCosts.costUSD),
          profitabilityRatio |->
              IF DoublePositive(totalValueUSD, 0)
              THEN quotientToFixed(netProfitUSD, totalValueUSD.mills, 4)
              ELSE 0,
          summary |->
              [ totalTokens |-> Len(tokens),
                successfulNormalizations |->
                    Cardinality({ i \in 1..Len(normalizedTokens) :
                        ~("error" \in DOMAIN normalizedTokens[i]
                          /\ normalizedTokens[i].error # "") }),
                highLiquidityTokens |->
                    Cardinality({ i \in 1..Len(normalizedTokens) :
                        normalizedTokens[i].liquidity = "high" }),
                riskLevel |-> assessRiskLevel(normalizedTokens, netProfitUSD) ] ]

\* The arguments RevenueNormalizer.execute is called with on its own.
TokenInputs ==
    { Token(UsdcAddress, a, "USDC", 6) :
        a \in { Amount(1, 5), Amount(2, 5), MalformedAmount } }
    \cup { Token(TokenAddress, a, "", 0) :
              a \in { Amount(2, 17), MalformedAmount } }

TokenLists == UNION { [1..n -> TokenInputs] : n \in 0..MaxTokens }

GasInputs == { Gas(0, 0), Gas(101000, 1) }

\* What the chain answers for one token: how symbol() and decimals() settle
\* and what the DEX returns.
Lookups ==
    { [ symbol |-> Fulfilled("TKN"), decimals |-> Fulfilled(DefaultDecimals) ],
      [ symbol |-> Fulfilled(""), decimals |-> Fulfilled(DefaultDecimals) ],
      [ symbol |-> Rejected, decimals |-> Rejected ] }
NoLookup == [ symbol |-> Rejected, decimals |-> Rejected, called |-> FALSE ]

LiquidityLevels == { 10000, 10001, 50000, 100000, 100001, 1000000, 1000001 }
DexPrice == 1003
DexAnswers ==
    { DexThrows } \cup { getTokenPriceFromDEX(DexPrice, l) : l \in LiquidityLevels }

\* ------------------------------------------ the normalizer in the pipeline
\* The gas arguments executeAnalysisPipeline would pass if it handed the gas
\* of the execution on, at a gas price of one gwei.
pipelineGas_FromExecution(exploitResult) == Gas(exploitResult.gasUsed, 1)

\* The gas arguments of the normalizer call of executeAnalysisPipeline: the
\* call names sessionId, chainId, extractedTokens and blockNumber, so gasUsed
\* and gasPrice are absent.
pipelineGas(exploitResult) == Gas(0, 0)

\* (profit * 0.6).toString() as the normalizer reads it: an amount in tenths
\* that is no whole number is a string formatUnits rejects.
amountOf(amount10) ==
    IF amount10 % 10 = 0 THEN Amount(amount10 \div 10, 0) ELSE MalformedAmount

\* exploitResult.extractedTokens as the normalizer reads them: the tokens of
\* the simulator carry an address and a symbol and no decimals.
pipelineTokens(exploitResult) ==
    [ i \in 1..Len(exploitResult.extractedTokens) |->
        LET token == exploitResult.extractedTokens[i]
        IN  Token(IF token.symbol = "USDC" THEN UsdcAddress ELSE UsdtAddress,
                  amountOf(token.amount10), token.symbol, 0) ]

\* What the chain answers during a pipeline run: both tokens have six
\* decimals and a pair of deep liquidity at DexPrice.
PipelineLookup ==
    [ symbol |-> Fulfilled("USD"), decimals |-> Fulfilled(6) ]
PipelineDex == getTokenPriceFromDEX(DexPrice, 1000001)

\* The token loop of RevenueNormalizer.execute from token i on: acc holds
\* normalizedTokens, totalValueUSD and totalValueETH.
RECURSIVE tokenLoop(_, _, _, _)
tokenLoop(tokens, i, native, acc) ==
    IF i > Len(tokens) THEN acc
    ELSE LET token == tokens[i]
             entry == IF token.amount.integer
                      THEN normalizeToken(token,
                               getTokenMetadata(PipelineLookup.symbol,
                                                PipelineLookup.decimals),
                               getTokenPrice(token.address, DexPrice,
                                             PipelineDex, native))
                      ELSE normalizeTokenCatch(token, formatUnitsError)
         IN  tokenLoop(tokens, i + 1, native,
                 [ normalizedTokens |-> Append(acc.normalizedTokens, entry),
                   totalValueUSD |-> IF token.amount.integer
                                     THEN addDouble(acc.totalValueUSD, entry.valueUSD)
                                     ELSE acc.totalValueUSD,
                   totalValueETH |-> IF token.amount.integer
                                     THEN acc.totalValueETH + entry.valueETH
                                     ELSE acc.totalValueETH ])

\* RevenueNormalizer.execute as executeAnalysisPipeline calls it.
pipelineRevenue(exploitResult, native) ==
    LET tokens == pipelineTokens(exploitResult)
        gas == pipelineGas(exploitResult)
        done == tokenLoop(tokens, 1, native,
                          [ normalizedTokens |-> << >>,
                            totalValueUSD |-> Double(0, 0),
                            totalValueETH |-> 0 ])
    IN  normalizerReturn(tokens, done.normalizedTokens, done.totalValueUSD,
                         done.totalValueETH,
                         calculateGasCosts(gas.gasUsed, gas.gasPrice, native))

\* No call of RevenueNormalizer.execute on its own has been made.
NormalizerIdle ==
    [ phase |-> "idle", tokens |-> << >>, gas |-> Gas(0, 0),
      nativeTokenPrice |-> 0, gasCosts |-> NoResult, answers |-> << >>,
      normalizedTokens |-> << >>, totalValueUSD |-> Double(0, 0),
      totalValueETH |-> 0, output |-> NoResult ]

\* ------------------------------------------------ the price oracle on its own
\* What reading the feed of a token gives: getChainlinkPrice throws, or
\* answers a price in mills.
FeedThrows == [ threw |-> TRUE, price |-> 0 ]
FeedAnswers ==
    { FeedThrows, [ threw |-> FALSE, price |-> 0 ],
      [ threw |-> FALSE, price |-> 1000 ] }

\* The addresses getTokenPrice is called with: two tokens of tokenFeeds as
\* they are written there, one of them in lower case, and a token without a
\* feed.
OracleAddresses ==
    { UsdcAddress, toLowerCase(UsdcAddress), DaiAddress, TokenAddress }

\* What the DEX answers to getTokenPrice: a throw, or a price of 0, of one
\* mill or of DexPrice at each liquidity level.
OracleDexAnswers ==
    { DexThrows }
    \cup { getTokenPriceFromDEX(p, l) : p \in { 0, 1, DexPrice },
                                        l \in LiquidityLevels }

\* What getNativeTokenPrice answers to getTokenPrice: the ETH/USD feed, or
\* the fallback when the feed cannot be read.
FeedNativePrices == { 2000, FallbackNativePrice }

\* No call of getTokenPrice on its own has been made.
OracleIdle ==
    [ phase |-> "idle", address |-> TokenAddress, feed |-> FeedThrows,
      chainlink |-> NoResult, dex |-> NoResult, native |-> 0,
      result |-> NoResult ]

\* No call of ConcreteExecution.execute on its own has been made.
ScannerIdle ==
    [ phase |-> "idle", origin |-> "none", source |-> NoSource,
      findings |-> << >>, strategies |-> << >>,
      selected |-> NoResult, reselected |-> NoResult, result |-> NoResult ]

VARIABLES
    status,          \* mcp_sessions.status of each session ("absent": no row)
    history,         \* the values status has taken, in order
    pc,              \* the call each startAnalysis is waiting for
    activeSessions,  \* McpServer.activeSessions, its keys
    invoked,         \* the stages each pipeline has started, in order
    stageError,      \* the stage of each pipeline that threw, or "none"
    storeError,      \* the status updates of each session that threw
    bestOf,          \* the strategy each execution stage selected
    harness,         \* the path each testExploit call took: none, sim or real
    sandbox,         \* each testExploit's testDir: none, live or removed
    teardowns,       \* the fs.rmdir calls of each testExploit
    harnessFault,    \* the internal failures of each testExploit
    testExploit,     \* each testExploit call: none, pending, returned, threw
    forgeRun,        \* what runForgeTest returned to testExploit
    executionResult, \* what executeExploitStrategy returned
    exploitResult,   \* what ConcreteExecution.execute returned
    revenue,         \* what RevenueNormalizer.execute returned to the pipeline
    discoveries,     \* the exploit_discoveries table
    toolExecutions,  \* the tool_executions table
    direct,          \* the executeToolDirectly call in progress, or NoResult
    directCalls,     \* the number of executeToolDirectly calls so far
    forgeInstalled,  \* whether `forge --version` succeeds on this host
    forgeAvailable,  \* ForgeService.forgeAvailable
    forgeChecked,    \* whether checkForgeAvailability has settled
    scanner,         \* a call of ConcreteExecution.execute, up to its selection
    normalizer,      \* a call of RevenueNormalizer.execute
    oracle           \* a call of PriceOracleService.getTokenPrice

vars == << status, history, pc, activeSessions, invoked, stageError, storeError,
           bestOf, harness, sandbox, teardowns, harnessFault, testExploit,
           forgeRun, executionResult, exploitResult, revenue, discoveries,
           toolExecutions, direct,
           directCalls, forgeInstalled, forgeAvailable, forgeChecked,
           scanner, normalizer, oracle >>

\* The variables of the sessions, their harness and the direct executions.
serverVars == << status, history, pc, activeSessions, invoked, stageError,
                 storeError, bestOf, harness, sandbox, teardowns, harnessFault,
                 testExploit, forgeRun, executionResult, exploitResult,
                 revenue, discoveries, toolExecutions, direct, directCalls,
                 forgeInstalled, forgeAvailable, forgeChecked >>
\* The variables of the tools called on their own.
toolVars == << scanner, normalizer, oracle >>

sessionVars == << status, history, activeSessions, storeError >>
harnessVars == << harness, sandbox, teardowns, harnessFault, testExploit,
                 forgeRun >>
execVars == << bestOf, executionResult, exploitResult >>
directVars == << toolExecutions, direct, directCalls >>
forgeVars == << forgeInstalled, forgeAvailable, forgeChecked >>

Init ==
    /\ status = [s \in Sessions |-> "absent"]
    /\ history = [s \in Sessions |-> << >>]
    /\ pc = [s \in Sessions |-> "none"]
    /\ activeSessions = {}
    /\ invoked = [s \in Sessions |-> << >>]
    /\ stageError = [s \in Sessions |-> "none"]
    /\ storeError = [s \in Sessions |-> {}]
    /\ bestOf = [s \in Sessions |-> NoResult]
    /\ harness = [s \in Sessions |-> "none"]
    /\ sandbox = [s \in Sessions |-> "none"]
    /\ teardowns = [s \in Sessions |-> 0]
    /\ harnessFault = [s \in Sessions |-> {}]
    /\ testExploit = [s \in Sessions |-> "none"]
    /\ forgeRun = [s \in Sessions |-> NoResult]
    /\ executionResult = [s \in Sessions |-> NoResult]
    /\ exploitResult = [s \in Sessions |-> NoResult]
    /\ revenue = [s \in Sessions |-> NoResult]
    /\ discoveries = << >>
    /\ toolExecutions = << >>
    /\ direct = NoResult
    /\ directCalls = 0
    /\ forgeInstalled \in BOOLEAN
    /\ forgeAvailable = FALSE
    /\ forgeChecked = FALSE
    /\ scanner = ScannerIdle
    /\ normalizer = NormalizerIdle
    /\ oracle = OracleIdle

\* ------------------------------------------------------ session creation
\* POST /api/mcp/sessions with a valid body: createMcpSession inserts the row
\* (status defaults to pending), then startAnalysis is called and runs up to
\* its first await, the update to running.  When createMcpSession throws no
\* row exists and startAnalysis is never called.
CreateSession(s) ==
    /\ pc[s] = "none"
    /\ \E inserted \in BOOLEAN :
          IF inserted
          THEN /\ status' = [status EXCEPT ![s] = "pending"]
               /\ history' = [history EXCEPT ![s] = Append(@, "pending")]
               /\ pc' = [pc EXCEPT ![s] = "updateRunning"]
          ELSE /\ pc' = [pc EXCEPT ![s] = "notCreated"]
               /\ UNCHANGED << status, history >>
    /\ UNCHANGED << activeSessions, invoked, stageError, storeError >>
    /\ UNCHANGED << execVars, harnessVars, discoveries, directVars, forgeVars >>
    /\ UNCHANGED << revenue, toolVars >>

\* updateMcpSession without its where clause: every row takes the value.
updateMcpSession_AllRows(st, s, value) == [o \in DOMAIN st |-> value]

\* storage.updateMcpSession(id, {status}): the row's status once the update
\* has been applied.
updateMcpSession(st, s, value) == [st EXCEPT ![s] = value]

\* The catch block of startAnalysis is entered: it calls updateMcpSession
\* with failed and waits for it.
CatchPc == "updateFailed"

\* startAnalysis, line 163: the update to running settles.  On success the
\* session is put in activeSessions and the pipeline calls its first stage.
UpdateRunning(s) ==
    /\ pc[s] = "updateRunning"
    /\ \E ok \in BOOLEAN :
          IF ok
          THEN /\ status' = updateMcpSession(status, s, "running")
               /\ history' = [history EXCEPT ![s] = Append(@, "running")]
               /\ activeSessions' = activeSessions \cup {s}
               /\ invoked' = [invoked EXCEPT ![s] = Append(@, Stages[1])]
               /\ pc' = [pc EXCEPT ![s] = Stages[1]]
               /\ UNCHANGED storeError
          ELSE /\ storeError' = [storeError EXCEPT ![s] = @ \cup {"running"}]
               /\ pc' = [pc EXCEPT ![s] = CatchPc]
               /\ UNCHANGED << status, history, activeSessions, invoked >>
    /\ UNCHANGED << stageError, execVars, harnessVars, discoveries, directVars,
                    forgeVars >>
    /\ UNCHANGED << revenue, toolVars >>

\* Steps 1 to 4 of executeAnalysisPipeline: stage i returns and the next
\* stage is called, or stage i throws into the catch block of startAnalysis.
PreparationStage(s, i) ==
    /\ i \in 1..4
    /\ pc[s] = Stages[i]
    /\ \E ok \in BOOLEAN :
          IF ok
          THEN /\ invoked' = [invoked EXCEPT ![s] = Append(@, Stages[i + 1])]
               /\ pc' = [pc EXCEPT ![s] = Stages[i + 1]]
               /\ UNCHANGED stageError
          ELSE /\ stageError' = [stageError EXCEPT ![s] = Stages[i]]
               /\ pc' = [pc EXCEPT ![s] = CatchPc]
               /\ UNCHANGED invoked
    /\ UNCHANGED << sessionVars, execVars, harnessVars, discoveries, directVars,
                    forgeVars >>
    /\ UNCHANGED << revenue, toolVars >>

\* -------------------------------------------------------- execution stage
\* vulnerabilityAnalysis.vulnerabilities.length === 0
noVulnerabilities(vulns) == Len(vulns) = 0

\* if (!this.forgeAvailable) return this.simulateExploitTest(params)
takesSimulator(available) == ~available

\* new Error(`Forge test execution failed: ${error.message}`).message
testExploitError(cause) ==
    CASE cause = "mkdir" -> "Forge test execution failed: mkdir"
      [] cause = "generateTestFiles" -> "Forge test execution failed: writeFile"
      [] OTHER -> "Forge test execution failed: rmdir"

\* ConcreteExecution.execute has returned result to executeAnalysisPipeline,
\* which goes on to step 6 or returns to startAnalysis, which then calls the
\* update to completed.
ExecuteReturns(s, result) ==
    /\ exploitResult' = [exploitResult EXCEPT ![s] = result]
    /\ IF proceedsToRevenue(result)
       THEN /\ invoked' = [invoked EXCEPT ![s] = Append(@, Stages[6])]
            /\ pc' = [pc EXCEPT ![s] = Stages[6]]
       ELSE /\ pc' = [pc EXCEPT ![s] = "updateCompleted"]
            /\ UNCHANGED invoked

\* forge.testExploit has settled inside executeExploitStrategy, which returns
\* executed to ConcreteExecution.execute, which returns to the pipeline.
StrategyExecuted(s, best, executed) ==
    /\ executionResult' = [executionResult EXCEPT ![s] = executed]
    /\ ExecuteReturns(s, executeReturn(best, executed))

\* Step 5: ConcreteExecution.execute runs on the sanitized source src.  It
\* scans, returns at once when nothing is found, otherwise builds the
\* strategies, selects the best and calls forge.testExploit, which answers
\* from the simulator or starts the real harness by creating its directory.
\* An error of the scan or of the strategy generators is rethrown.
ConcreteExecutionStart(s) ==
    /\ pc[s] = Stages[5]
    /\ \E src \in PipelineSources, throws \in BOOLEAN :
          LET vulns == analyzeForVulnerabilities(src)
              best == bestStrategy(exploitStrategies(vulns))
          IN  IF throws
              THEN /\ stageError' = [stageError EXCEPT ![s] = Stages[5]]
                   /\ pc' = [pc EXCEPT ![s] = CatchPc]
                   /\ UNCHANGED << invoked, execVars, harnessVars >>
              ELSE IF noVulnerabilities(vulns)
              THEN /\ ExecuteReturns(s, executeNoVulnerabilities)
                   /\ UNCHANGED << stageError, bestOf, executionResult,
                                   harnessVars >>
              ELSE IF takesSimulator(forgeAvailable)
              THEN /\ \E t \in RandomThresholds10, g \in RandomGas,
                         pr \in RandomProfit :
                         StrategyExecuted(s, best,
                             executeExploitStrategyReturn(
                                 simulateExploitTest(best, t, g, pr)))
                   /\ bestOf' = [bestOf EXCEPT ![s] = best]
                   /\ harness' = [harness EXCEPT ![s] = "sim"]
                   /\ testExploit' = [testExploit EXCEPT ![s] = "returned"]
                   /\ UNCHANGED << stageError, sandbox, teardowns, harnessFault,
                                   forgeRun >>
              ELSE /\ bestOf' = [bestOf EXCEPT ![s] = best]
                   /\ harness' = [harness EXCEPT ![s] = "real"]
                   /\ testExploit' = [testExploit EXCEPT ![s] = "pending"]
                   /\ pc' = [pc EXCEPT ![s] = "mkdir"]
                   /\ UNCHANGED << invoked, stageError, executionResult,
                                   exploitResult, sandbox, teardowns,
                                   harnessFault, forgeRun >>
    /\ UNCHANGED << sessionVars, discoveries, directVars, forgeVars >>
    /\ UNCHANGED << revenue, toolVars >>

\* testExploit, line 75: fs.mkdir(testDir) settles.
Mkdir(s) ==
    /\ pc[s] = "mkdir"
    /\ \E ok \in BOOLEAN :
          IF ok
          THEN /\ sandbox' = [sandbox EXCEPT ![s] = "live"]
               /\ pc' = [pc EXCEPT ![s] = "generateTestFiles"]
               /\ UNCHANGED harnessFault
          ELSE /\ harnessFault' = [harnessFault EXCEPT ![s] = @ \cup {"mkdir"}]
               /\ pc' = [pc EXCEPT ![s] = "cleanupOnError"]
               /\ UNCHANGED sandbox
    /\ UNCHANGED << sessionVars, invoked, stageError, execVars, harness,
                    teardowns, testExploit, forgeRun, discoveries, directVars,
                    forgeVars >>
    /\ UNCHANGED << revenue, toolVars >>

\* testExploit, line 78: generateTestFiles settles.
GenerateTestFiles(s) ==
    /\ pc[s] = "generateTestFiles"
    /\ \E ok \in BOOLEAN :
          IF ok
          THEN /\ pc' = [pc EXCEPT ![s] = "runForgeTest"]
               /\ UNCHANGED harnessFault
          ELSE /\ harnessFault' = [harnessFault EXCEPT ![s] = @ \cup {"generateTestFiles"}]
               /\ pc' = [pc EXCEPT ![s] = "cleanupOnError"]
    /\ UNCHANGED << sessionVars, invoked, stageError, execVars, harness, sandbox,
                    teardowns, testExploit, forgeRun, discoveries, directVars,
                    forgeVars >>
    /\ UNCHANGED << revenue, toolVars >>

\* testExploit, line 81: runForgeTest settles.  It never throws: a failing
\* forge command is answered from its catch block.
RunForgeTest(s) ==
    /\ pc[s] = "runForgeTest"
    /\ \E exit0 \in BOOLEAN, pass \in BOOLEAN :
          IF exit0
          THEN /\ forgeRun' = [forgeRun EXCEPT ![s] = parseForgeOutput(pass)]
               /\ UNCHANGED harnessFault
          ELSE /\ ~pass
               /\ forgeRun' = [forgeRun EXCEPT ![s] =
                                  runForgeTestFailure("Command failed with code 1")]
               /\ harnessFault' = [harnessFault EXCEPT ![s] = @ \cup {"forge"}]
    /\ pc' = [pc EXCEPT ![s] = "cleanup"]
    /\ UNCHANGED << sessionVars, invoked, stageError, execVars, harness, sandbox,
                    teardowns, testExploit, discoveries, directVars, forgeVars >>
    /\ UNCHANGED << revenue, toolVars >>

\* fs.rmdir(testDir, {recursive: true}): the directory afterwards.
rmdir(dir, ok) == IF ok /\ dir = "live" THEN "removed" ELSE dir

\* testExploit, line 84: the rmdir after the run settles; testExploit then
\* returns the result of the run, or enters its catch block.
Cleanup(s) ==
    /\ pc[s] = "cleanup"
    /\ teardowns' = [teardowns EXCEPT ![s] = @ + 1]
    /\ \E ok \in BOOLEAN :
          /\ sandbox' = [sandbox EXCEPT ![s] = rmdir(@, ok)]
          /\ IF ok
             THEN /\ testExploit' = [testExploit EXCEPT ![s] = "returned"]
                  /\ StrategyExecuted(s, bestOf[s],
                         executeExploitStrategyReturn(forgeRun[s]))
                  /\ UNCHANGED harnessFault
             ELSE /\ harnessFault' = [harnessFault EXCEPT ![s] = @ \cup {"cleanup"}]
                  /\ pc' = [pc EXCEPT ![s] = "cleanupOnError"]
                  /\ UNCHANGED << invoked, executionResult, exploitResult,
                                  testExploit >>
    /\ UNCHANGED << sessionVars, stageError, bestOf, harness, forgeRun,
                    discoveries, directVars, forgeVars >>
    /\ UNCHANGED << revenue, toolVars >>

\* The failure that brought testExploit into its catch block.
caughtError(faults) ==
    IF "mkdir" \in faults THEN "mkdir"
    ELSE IF "generateTestFiles" \in faults THEN "generateTestFiles"
    ELSE "rmdir"

\* testExploit, line 91: the rmdir of the catch block settles (its own error
\* is logged and dropped); testExploit throws, executeExploitStrategy
\* catches that and returns its failure result.
CleanupOnError(s) ==
    /\ pc[s] = "cleanupOnError"
    /\ teardowns' = [teardowns EXCEPT ![s] = @ + 1]
    /\ \E ok \in BOOLEAN : sandbox' = [sandbox EXCEPT ![s] = rmdir(@, ok)]
    /\ testExploit' = [testExploit EXCEPT ![s] = "threw"]
    /\ StrategyExecuted(s, bestOf[s],
           executeExploitStrategyCatch(testExploitError(caughtError(harnessFault[s]))))
    /\ UNCHANGED << sessionVars, stageError, bestOf, harness, harnessFault,
                    forgeRun, discoveries, directVars, forgeVars >>
    /\ UNCHANGED << revenue, toolVars >>

\* ------------------------------------------------- valuation and discovery
\* Step 6, line 239: RevenueNormalizer.execute settles, with its result or
\* rejecting; on success createExploitDiscovery is called.
RevenueStage(s) ==
    /\ pc[s] = Stages[6]
    /\ \E ok \in BOOLEAN :
          IF ok
          THEN /\ \E native \in NativePrices :
                    revenue' = [revenue EXCEPT ![s] =
                                   pipelineRevenue(exploitResult[s], native)]
               /\ invoked' = [invoked EXCEPT ![s] = Append(@, Stages[7])]
               /\ pc' = [pc EXCEPT ![s] = Stages[7]]
               /\ UNCHANGED stageError
          ELSE /\ stageError' = [stageError EXCEPT ![s] = Stages[6]]
               /\ pc' = [pc EXCEPT ![s] = CatchPc]
               /\ UNCHANGED << invoked, revenue >>
    /\ UNCHANGED << sessionVars, execVars, harnessVars, discoveries, directVars,
                    forgeVars >>
    /\ UNCHANGED toolVars

\* The row createExploitDiscovery is given on line 247.
discoveryOf(s, result) ==
    [ sessionId |-> s,
      exploitType |-> Field(result, "exploitType"),
      severity |-> Field(result, "severity"),
      confidence10 |-> Field(result, "confidence10"),
      validated |-> TRUE ]

\* Line 247: storage.createExploitDiscovery settles; the pipeline returns and
\* startAnalysis calls the update to completed.
CreateExploitDiscovery(s) ==
    /\ pc[s] = Stages[7]
    /\ \E ok \in BOOLEAN :
          IF ok
          THEN /\ discoveries' = Append(discoveries, discoveryOf(s, exploitResult[s]))
               /\ pc' = [pc EXCEPT ![s] = "updateCompleted"]
               /\ UNCHANGED stageError
          ELSE /\ stageError' = [stageError EXCEPT ![s] = Stages[7]]
               /\ pc' = [pc EXCEPT ![s] = CatchPc]
               /\ UNCHANGED discoveries
    /\ UNCHANGED << sessionVars, invoked, execVars, harnessVars, directVars,
                    forgeVars >>
    /\ UNCHANGED << revenue, toolVars >>

\* ------------------------------------------------------- terminal updates
\* startAnalysis, lines 177-178: the update to completed settles.
UpdateCompleted(s) ==
    /\ pc[s] = "updateCompleted"
    /\ \E ok \in BOOLEAN :
          IF ok
          THEN /\ status' = updateMcpSession(status, s, "completed")
               /\ history' = [history EXCEPT ![s] = Append(@, "completed")]
               /\ activeSessions' = activeSessions \ {s}
               /\ pc' = [pc EXCEPT ![s] = "resolved"]
               /\ UNCHANGED storeError
          ELSE /\ storeError' = [storeError EXCEPT ![s] = @ \cup {"completed"}]
               /\ pc' = [pc EXCEPT ![s] = CatchPc]
               /\ UNCHANGED << status, history, activeSessions >>
    /\ UNCHANGED << invoked, stageError, execVars, harnessVars, discoveries,
                    directVars, forgeVars >>
    /\ UNCHANGED << revenue, toolVars >>

\* startAnalysis, lines 182-184: the update to failed of the catch block
\* settles.  When it throws, startAnalysis rejects with that error before
\* activeSessions.delete is reached.
UpdateFailed(s) ==
    /\ pc[s] = "updateFailed"
    /\ \E ok \in BOOLEAN :
          IF ok
          THEN /\ status' = updateMcpSession(status, s, "failed")
               /\ history' = [history EXCEPT ![s] = Append(@, "failed")]
               /\ activeSessions' = activeSessions \ {s}
               /\ UNCHANGED storeError
          ELSE /\ storeError' = [storeError EXCEPT ![s] = @ \cup {"failed"}]
               /\ UNCHANGED << status, history, activeSessions >>
    /\ pc' = [pc EXCEPT ![s] = "rejected"]
    /\ UNCHANGED << invoked, stageError, execVars, harnessVars, discoveries,
                    directVars, forgeVars >>
    /\ UNCHANGED << revenue, toolVars >>

\* ----------------------------------------------------- forge availability
\* checkForgeAvailability, started by the constructor of ForgeService: the
\* spawned `forge --version` closes.
CheckForgeAvailability ==
    /\ ~forgeChecked
    /\ forgeChecked' = TRUE
    /\ forgeAvailable' = forgeInstalled
    /\ UNCHANGED << sessionVars, pc, invoked, stageError, execVars, harnessVars,
                    discoveries, directVars, forgeInstalled >>
    /\ UNCHANGED << revenue, toolVars >>

\* --------------------------------------------------- direct tool execution
\* Tool names as POST /api/tools/execute/:toolName receives them: the words
\* of the name and the character joining them.
ToolNames == { [ words |-> << "state", "reader" >>, sep |-> "-" ],
               [ words |-> << "code", "sanitizer" >>, sep |-> "_" ],
               [ words |-> << "exploit", "runner" >>, sep |-> "_" ] }

\* toolName.replace(/-/g, '_')
normalizedName(toolName) == [ toolName EXCEPT !.sep = "_" ]

\* The keys of McpServer.tools.
RegisteredTools ==
    { [ words |-> w, sep |-> "_" ] :
        w \in { << "source", "code", "fetcher" >>, << "constructor", "parameters" >>,
                << "state", "reader" >>, << "code", "sanitizer" >>,
                << "concrete", "execution" >>, << "revenue", "normalizer" >> } }

\* The row createToolExecution is given by executeToolDirectly.
toolExecutionRow(call, st) ==
    [ sessionId |-> call.sessionId, toolName |-> call.toolName, status |-> st ]

\* executeToolDirectly is called: an unknown name throws at once, otherwise
\* tool.execute(args) is called and awaited.
ExecuteToolDirectly ==
    /\ direct = NoResult
    /\ directCalls < MaxDirect
    /\ directCalls' = directCalls + 1
    /\ \E toolName \in ToolNames,
          sid \in {"null"} \cup { s \in Sessions : status[s] # "absent" } :
          IF normalizedName(toolName) \in RegisteredTools
          THEN direct' = [ toolName |-> normalizedName(toolName),
                           sessionId |-> sid, await |-> "execute" ]
          ELSE direct' = direct
    /\ UNCHANGED << sessionVars, pc, invoked, stageError, execVars, harnessVars,
                    discoveries, toolExecutions, forgeVars >>
    /\ UNCHANGED << revenue, toolVars >>

\* executeToolDirectly, line 314: tool.execute settles and the matching
\* createToolExecution is called.
DirectToolSettles ==
    /\ direct # NoResult
    /\ direct.await = "execute"
    /\ \E ok \in BOOLEAN :
          direct' = [direct EXCEPT !.await = IF ok THEN "logCompleted" ELSE "logFailed"]
    /\ UNCHANGED << sessionVars, pc, invoked, stageError, execVars, harnessVars,
                    discoveries, toolExecutions, directCalls, forgeVars >>
    /\ UNCHANGED << revenue, toolVars >>

\* executeToolDirectly, lines 318 and 332: createToolExecution settles.  The
\* insert of the completed row is inside the try block, so when it throws the
\* catch block inserts a failed row.
DirectLogSettles ==
    /\ direct # NoResult
    /\ direct.await \in {"logCompleted", "logFailed"}
    /\ \E ok \in BOOLEAN :
          IF ok
          THEN /\ toolExecutions' = Append(toolExecutions,
                      toolExecutionRow(direct,
                          IF direct.await = "logCompleted" THEN "completed" ELSE "failed"))
               /\ direct' = NoResult
          ELSE /\ direct' = IF direct.await = "logCompleted"
                            THEN [direct EXCEPT !.await = "logFailed"]
                            ELSE NoResult
               /\ UNCHANGED toolExecutions
    /\ UNCHANGED << sessionVars, pc, invoked, stageError, execVars, harnessVars,
                    discoveries, directCalls, forgeVars >>
    /\ UNCHANGED << revenue, toolVars >>

\* ------------------------------------------- the execution stage on its own
\* ConcreteExecution.execute is called with a source text, as
\* executeToolDirectly calls it, and runs up to its call of
\* executeExploitStrategy: it scans, returns when nothing is found, builds a
\* strategy for every finding and selects one.  An error on the way is
\* rethrown by the catch block of line 105.
ExecuteScan ==
    /\ scanner.phase = "idle"
    /\ \/ scanner' = [ ScannerIdle EXCEPT !.phase = "threw" ]
       \/ \E src \in ScanSources :
          LET vulns == analyzeForVulnerabilities(src)
              strategies == exploitStrategies(vulns)
          IN  scanner' =
                  IF noVulnerabilities(vulns)
                  THEN [ ScannerIdle EXCEPT !.phase = "returned",
                                            !.origin = "scan",
                                            !.source = src ]
                  ELSE [ phase |-> "selected", origin |-> "scan",
                         source |-> src, findings |-> vulns,
                         strategies |-> strategies,
                         selected |-> bestStrategy(strategies),
                         reselected |-> NoResult, result |-> NoResult ]
    /\ UNCHANGED << serverVars, normalizer, oracle >>

\* Lines 77 to 79 on a strategy list of any confidences.
SelectBestStrategy ==
    /\ scanner.phase = "idle"
    /\ \E strategies \in StrategyLists :
          scanner' = [ ScannerIdle EXCEPT !.phase = "selected",
                                          !.origin = "list",
                                          !.strategies = strategies,
                                          !.selected = bestStrategy(strategies) ]
    /\ UNCHANGED << serverVars, normalizer, oracle >>

\* Lines 77 to 79 once more on the same list, as a second call of execute
\* with the same source text runs them.
SelectAgain ==
    /\ scanner.phase = "selected"
    /\ scanner' = [ scanner EXCEPT !.phase = "repeated",
                                   !.reselected = bestStrategy(scanner.strategies) ]
    /\ UNCHANGED << serverVars, normalizer, oracle >>

\* Lines 82 to 98 without forge: executeExploitStrategy runs the selected
\* strategy, forge.testExploit answers from simulateExploitTest, and execute
\* returns its result.
SimulateSelected ==
    /\ scanner.phase = "selected"
    /\ scanner.origin = "scan"
    /\ takesSimulator(forgeAvailable)
    /\ \E t \in RandomThresholds10, g \in RandomGas, pr \in RandomProfit :
          scanner' =
              [ scanner EXCEPT
                  !.phase = "simulated",
                  !.result = executeReturn(scanner.selected,
                                 executeExploitStrategyReturn(
                                     simulateExploitTest(scanner.selected, t, g, pr))) ]
    /\ UNCHANGED << serverVars, normalizer, oracle >>

\* ---------------------------------------------- the normalizer on its own
\* RevenueNormalizer.execute is called with a token list and gas arguments,
\* as executeToolDirectly calls it, and waits for the native token price.
NormalizerExecute ==
    /\ normalizer.phase = "idle"
    /\ \E tokens \in TokenLists, gas \in GasInputs :
          normalizer' = [ NormalizerIdle EXCEPT !.phase = "getNativeTokenPrice",
                                                !.tokens = tokens,
                                                !.gas = gas ]
    /\ UNCHANGED << serverVars, scanner, oracle >>

\* The phase after a token: the next token, or getMarketContext.
afterToken(n, done) ==
    IF done = Len(n.tokens) THEN "getMarketContext" ELSE "normalizeToken"

\* Line 43: getNativeTokenPrice settles (it never throws); the gas costs are
\* computed and the token loop is entered.
NativePriceSettles ==
    /\ normalizer.phase = "getNativeTokenPrice"
    /\ \E native \in NativePrices :
          normalizer' =
              [ normalizer EXCEPT
                  !.nativeTokenPrice = native,
                  !.gasCosts = calculateGasCosts(normalizer.gas.gasUsed,
                                                 normalizer.gas.gasPrice, native),
                  !.phase = afterToken(normalizer, 0) ]
    /\ UNCHANGED << serverVars, scanner, oracle >>

\* Lines 49 to 71, one turn of the loop: normalizeToken looks the metadata
\* up when the token lacks them, parses the amount, asks for the price and
\* returns its entry; when it throws, the catch block pushes the entry of a
\* failed token and the totals stay as they are.
NormalizeTokenSettles ==
    /\ normalizer.phase = "normalizeToken"
    /\ LET i == Len(normalizer.normalizedTokens) + 1
           token == normalizer.tokens[i]
       IN  \E lookup \in (IF needsMetadata(token) THEN Lookups ELSE { NoLookup }),
              dex \in (IF token.amount.integer THEN DexAnswers ELSE { DexThrows }),
              native \in NativePrices :
              LET entry ==
                      IF token.amount.integer
                      THEN normalizeToken(token,
                               getTokenMetadata(lookup.symbol, lookup.decimals),
                               getTokenPrice(token.address, DexPrice, dex, native))
                      ELSE normalizeTokenCatch(token, formatUnitsError)
              IN  normalizer' =
                      [ normalizer EXCEPT
                          !.answers = Append(@, [ lookup |-> lookup, dex |-> dex,
                                                  native |-> native ]),
                          !.normalizedTokens = Append(@, entry),
                          !.totalValueUSD =
                              IF token.amount.integer
                              THEN addDouble(@, entry.valueUSD) ELSE @,
                          !.totalValueETH =
                              IF token.amount.integer
                              THEN @ + entry.valueETH ELSE @,
                          !.phase = afterToken(normalizer, i) ]
    /\ UNCHANGED << serverVars, scanner, oracle >>

\* Line 78: getMarketContext settles (it never throws) and execute returns.
NormalizerReturns ==
    /\ normalizer.phase = "getMarketContext"
    /\ normalizer' =
          [ normalizer EXCEPT
              !.phase = "returned",
              !.output = normalizerReturn(normalizer.tokens,
                                          normalizer.normalizedTokens,
                                          normalizer.totalValueUSD,
                                          normalizer.totalValueETH,
                                          normalizer.gasCosts) ]
    /\ UNCHANGED << serverVars, scanner, oracle >>

\* ------------------------------------------- the price oracle on its own
\* getTokenPrice is called for a token on chain 1 and awaits
\* getTokenPriceFromChainlink (line 122); `feed` is what the feed of the
\* token gives if it is read.
GetTokenPriceCall ==
    /\ oracle.phase = "idle"
    /\ \E address \in OracleAddresses, feed \in FeedAnswers :
          oracle' = [ OracleIdle EXCEPT !.phase = "chainlink",
                                        !.address = address,
                                        !.feed = feed ]
    /\ UNCHANGED << serverVars, scanner, normalizer >>

\* The price getTokenPrice holds after the Chainlink branch (lines 121-130).
feedPriceOf(chainlink) == IF chainlink.threw THEN 0 ELSE chainlink.price

\* Lines 121 to 130: getTokenPriceFromChainlink settles; a throw, of the
\* lookup or of the feed, is caught and logged, and getTokenPriceFromDEX is
\* awaited.
ChainlinkSettles ==
    /\ oracle.phase = "chainlink"
    /\ LET lookup == getTokenPriceFromChainlink(oracle.address, oracle.feed.price)
       IN  oracle' = [ oracle EXCEPT
                         !.chainlink = IF ~lookup.threw /\ oracle.feed.threw
                                       THEN FeedThrows ELSE lookup,
                         !.phase = "dex" ]
    /\ UNCHANGED << serverVars, scanner, normalizer >>

\* Lines 133 to 150: getTokenPriceFromDEX settles; a throw is caught and
\* logged.  With a price getNativeTokenPrice is awaited (line 153), without
\* one getTokenPrice returns a result in which no native price takes part.
DexSettles ==
    /\ oracle.phase = "dex"
    /\ \E dex \in OracleDexAnswers :
          LET result == getTokenPrice(oracle.address, feedPriceOf(oracle.chainlink),
                                      dex, FallbackNativePrice)
          IN  oracle' = IF result.priceUSD > 0
                        THEN [ oracle EXCEPT !.dex = dex, !.phase = "native" ]
                        ELSE [ oracle EXCEPT !.dex = dex, !.phase = "returned",
                                             !.result = result ]
    /\ UNCHANGED << serverVars, scanner, normalizer >>

\* Lines 153 to 170: getNativeTokenPrice settles (it never throws) and
\* getTokenPrice returns.
OracleNativeSettles ==
    /\ oracle.phase = "native"
    /\ \E native \in FeedNativePrices :
          oracle' = [ oracle EXCEPT
                        !.native = native,
                        !.phase = "returned",
                        !.result = getTokenPrice(oracle.address,
                                                 feedPriceOf(oracle.chainlink),
                                                 oracle.dex, native) ]
    /\ UNCHANGED << serverVars, scanner, normalizer >>

\* ------------------------------------------------------ the specifications
\* The steps of one session: its creation, its startAnalysis and everything
\* startAnalysis awaits.
SessionStep(s) ==
    \/ CreateSession(s)
    \/ UpdateRunning(s)
    \/ \E i \in 1..4 : PreparationStage(s, i)
    \/ ConcreteExecutionStart(s)
    \/ Mkdir(s)
    \/ GenerateTestFiles(s)
    \/ RunForgeTest(s)
    \/ Cleanup(s)
    \/ CleanupOnError(s)
    \/ RevenueStage(s)
    \/ CreateExploitDiscovery(s)
    \/ UpdateCompleted(s)
    \/ UpdateFailed(s)

\* Concurrent sessions and the availability check of the harness.
Next ==
    \/ \E s \in Sessions : SessionStep(s)
    \/ CheckForgeAvailability

Spec == Init /\ [][Next]_vars

\* Every call a startAnalysis awaits settles in the end: a session that can
\* take a step takes one.
Fairness == \A s \in Sessions : WF_vars(SessionStep(s))

SpecLive == Init /\ [][Next]_vars /\ Fairness

\* One session beside direct tool executions, which are the writers of the
\* tool_executions table.
NextTools ==
    \/ SessionStep("s1")
    \/ CheckForgeAvailability
    \/ ExecuteToolDirectly
    \/ DirectToolSettles
    \/ DirectLogSettles

SpecTools == Init /\ [][NextTools]_vars

\* The execution stage called on its own, up to its selection.
NextScanner ==
    \/ ExecuteScan
    \/ SelectBestStrategy
    \/ SelectAgain
    \/ SimulateSelected

\* The harness is not reached: the host is taken to be one without forge.
InitTool == Init /\ ~forgeInstalled

SpecScanner == InitTool /\ [][NextScanner]_vars

\* The revenue normalizer called on its own.
NextNormalizer ==
    \/ NormalizerExecute
    \/ NativePriceSettles
    \/ NormalizeTokenSettles
    \/ NormalizerReturns

SpecNormalizer == InitTool /\ [][NextNormalizer]_vars

\* The price oracle called on its own.
NextOracle ==
    \/ GetTokenPriceCall
    \/ ChainlinkSettles
    \/ DexSettles
    \/ OracleNativeSettles

SpecOracle == InitTool /\ [][NextOracle]_vars

\* ------------------------------------------------------------ properties
Settled(s) == pc[s] \in {"resolved", "rejected"}

IsPrefix(a, b) == Len(a) <= Len(b) /\ \A i \in 1..Len(a) : a[i] = b[i]

InvokedStages(s) == { invoked[s][i] : i \in 1..Len(invoked[s]) }

HasDiscovery(s) == \E i \in 1..Len(discoveries) : discoveries[i].sessionId = s

\* executeExploitStrategy has returned its result for session s.
Executed(s) == executionResult[s] # NoResult

ScanEmpty(s) == exploitResult[s] = executeNoVulnerabilities

CompletedRun == << "pending", "running", "completed" >>
FailedRun == << "pending", "running", "failed" >>

\* C1: the values a session's stored status takes are, in order, pending,
\* running and then exactly one of completed and failed: at every moment the
\* sequence so far is a prefix of one of these two, and once startAnalysis
\* has settled it is one of them, also when a storage update throws.
C1_StatusSequence ==
    \A s \in Sessions :
        /\ IsPrefix(history[s], CompletedRun) \/ IsPrefix(history[s], FailedRun)
        /\ Settled(s) => history[s] \in {CompletedRun, FailedRun}

\* C2: once a session is completed it has an exploit discovery exactly when
\* its execution stage reported success, and a session whose execution
\* reported failure or never ran has no discovery at any time.
C2_DiscoveryIffSuccess ==
    \A s \in Sessions :
        /\ HasDiscovery(s) => Executed(s) /\ executionResult[s].success
        /\ status[s] = "completed" =>
              (HasDiscovery(s) <=> Executed(s) /\ executionResult[s].success)

C2_Witness ==
    \E s \in Sessions :
        /\ status[s] = "completed"
        /\ HasDiscovery(s)
        /\ executionResult[s].success
        /\ \E t \in Sessions : status[t] = "completed" /\ Executed(t)
                                /\ ~executionResult[t].success /\ ~HasDiscovery(t)

C5_StageErrorFailsSession ==
    \A s \in Sessions :
        /\ \A i, j \in 1..Len(invoked[s]) : invoked[s][i] = invoked[s][j] => i = j
        /\ stageError[s] # "none" =>
              /\ invoked[s][Len(invoked[s])] = stageError[s]
              /\ Settled(s) => status[s] = "failed"

\* The tool_executions rows of session s.
ToolExecutionsOf(s) ==
    { i \in 1..Len(toolExecutions) : toolExecutions[i].sessionId = s }

\* The tool stages the pipeline of session s has run to their end.
StagesRun(s) ==
    { i \in 1..Len(invoked[s]) :
        /\ invoked[s][i] # "createExploitDiscovery"
        /\ pc[s] # invoked[s][i] }

\* C6: once a session is terminal the tool_executions table holds one row of
\* that session for every stage its pipeline ran.
C6_StageRecords ==
    \A s \in Sessions :
        Settled(s) => Cardinality(ToolExecutionsOf(s)) = Cardinality(StagesRun(s))

\* C7: when a testExploit call on the real harness has settled, its
\* directory no longer exists, and a directory that was created has had
\* exactly one rmdir.
C7_SandboxTornDownOnce ==
    \A s \in Sessions :
        harness[s] = "real" /\ testExploit[s] \in {"returned", "threw"} =>
            /\ sandbox[s] # "live"
            /\ sandbox[s] = "removed" => teardowns[s] = 1

\* The simulated tag of a result, as a reader of the object sees it.
SimulatedTag(r) ==
    IF "simulated" \in DOMAIN r
    THEN (IF r.simulated THEN "true" ELSE "false")
    ELSE "undefined"

\* C8: the execution result handed to the orchestrator is tagged simulated =
\* true when the simulator produced it and simulated = false when a forge
\* run did.
C8_SimulatedTag ==
    \A s \in Sessions :
        Executed(s) =>
            /\ harness[s] = "sim" =>
                  SimulatedTag(exploitResult[s].executionDetails) = "true"
            /\ harness[s] = "real" =>
                  SimulatedTag(exploitResult[s].executionDetails) = "false"

\* C9: testExploit takes the simulator only on a host where forge is not
\* usable, also while the availability check is still running.
C9_SimulatorOnlyWithoutForge ==
    \A s \in Sessions : harness[s] = "sim" => ~forgeInstalled

\* C10: after an internal failure of the harness (mkdir, file generation, a
\* forge command, rmdir) executeExploitStrategy has not thrown: the execution
\* stage has not failed and its result has success = false, an error
\* message, no tokens and no trace.
C10_HarnessFailureResult ==
    \A s \in Sessions :
        harnessFault[s] # {} /\ testExploit[s] \in {"returned", "threw"} =>
            /\ stageError[s] # "concrete_execution"
            /\ Executed(s)
            /\ ~executionResult[s].success
            /\ executionResult[s].errorMessage \notin {"undefined", "null", ""}
            /\ executionResult[s].extractedTokens = << >>
            /\ executionResult[s].trace = << >>

C10_Witness ==
    \E s, t \in Sessions :
        /\ testExploit[s] = "threw" /\ "cleanup" \in harnessFault[s]
        /\ testExploit[t] = "returned" /\ harnessFault[t] = {"forge"}

\* C11: an error raised while the source text is analysed, by the parse of
\* the sanitizer or by the scan of the execution stage, does not fail the
\* session: no execution is attempted and the session ends completed.
C11_AnalysisErrorDegrades ==
    \A s \in Sessions :
        stageError[s] \in {"code_sanitizer", "concrete_execution"} =>
            /\ testExploit[s] = "none"
            /\ status[s] # "failed"
            /\ Settled(s) => status[s] = "completed"

\* The findings and the strategies of a scan that has been made.
Scanned == scanner.origin = "scan" /\ scanner.phase \in {"selected", "repeated"}

\* C12: every finding of a scan has a confidence from 5 to 95, and so has
\* every strategy made of a finding, also of the kinds whose generator
\* multiplies the confidence by 0.8, 0.7 or 0.6 (strategy confidences are in
\* tenths).
C12_ConfidenceRange ==
    Scanned =>
        /\ \A i \in 1..Len(scanner.findings) :
              /\ scanner.findings[i].confidence >= ConfMin
              /\ scanner.findings[i].confidence <= ConfMax
        /\ \A i \in 1..Len(scanner.strategies) :
              /\ scanner.strategies[i].confidence10 >= ConfMin * 10
              /\ scanner.strategies[i].confidence10 <= ConfMax * 10

\* A scan of a source with every protective deduction whose strategies
\* include the three deflated kinds, the unchecked call at its lowest.
C12_Witness ==
    /\ Scanned
    /\ scanner.source.p = ScanMaxProt
    /\ \A k \in {"accessControl", "integerOverflow"} :
          \E i \in 1..Len(scanner.strategies) :
              /\ scanner.strategies[i].type = k
              /\ scanner.strategies[i].confidence10 # scanner.findings[i].confidence * 10
    /\ \E i \in 1..Len(scanner.strategies) :
          /\ scanner.strategies[i].type = "uncheckedCall"
          /\ scanner.findings[i].matches = 1
          /\ scanner.strategies[i].confidence10 = 120

\* The multipliers as the specification lists them, times ten.
StatedMultiplier10(k) ==
    CASE k = "reentrancy" -> 15
      [] k = "delegateCall" -> 18
      [] k = "accessControl" -> 12
      [] k = "integerOverflow" -> 11
      [] k = "priceOracle" -> 14
      [] k = "uncheckedCall" -> 10
      [] k = "flashLoan" -> 13

\* clip(30 * multiplier(k) + min(10 m, 30) - min(5 p, 20), 5, 95)
StatedConfidence(k, m, p) ==
    LET raw == (30 * StatedMultiplier10(k)) \div 10
               + (IF 10 * m < 30 THEN 10 * m ELSE 30)
               - (IF 5 * p < 20 THEN 5 * p ELSE 20)
    IN  IF raw > 95 THEN 95 ELSE IF raw < 5 THEN 5 ELSE raw

\* C13: in every scan a category with m >= 1 matches has exactly one
\* finding, of confidence clip(30 * multiplier + min(10 m, 30) - min(5 p, 20),
\* 5, 95), a category with no match has none, the findings come in the order
\* of the categories, and delegatecall with m = 1 and p = 0 is critical with
\* confidence 64.
C13_FindingConfidence ==
    scanner.origin = "scan" /\ scanner.phase # "idle" =>
        LET src == scanner.source
            found == { i \in 1..Len(Kinds) : src.m[i] > 0 }
        IN  /\ Len(scanner.findings) = Cardinality(found)
            /\ \A j \in 1..Len(scanner.findings) :
                  LET f == scanner.findings[j]
                  IN  /\ KindIndex(f.type) \in found
                      /\ f.matches = src.m[KindIndex(f.type)]
                      /\ f.confidence = StatedConfidence(f.type, f.matches, src.p)
                      /\ j > 1 => KindIndex(scanner.findings[j - 1].type)
                                      < KindIndex(f.type)
                      /\ f.type = "delegateCall" /\ f.matches = 1 /\ src.p = 0
                            => f.severity = "critical" /\ f.confidence = 64

\* The scan of a source whose only signature is one delegatecall, beside a
\* scan where both caps of the formula are exceeded or met.
C13_Witness ==
    /\ Scanned
    /\ Len(scanner.findings) = 1
    /\ scanner.findings[1].type = "delegateCall"
    /\ scanner.findings[1].matches = 1
    /\ scanner.source.p = 0
    /\ scanner.findings[1].confidence = 64

\* C14: the selected strategy is one of the list and has the greatest
\* confidence of the list; of the strategies of that confidence it is the
\* one whose kind comes first in the order reentrancy, integerOverflow,
\* accessControl, delegateCall, uncheckedCall, priceOracle, flashLoan; and
\* the selection made again on the same list is the same strategy.
C14_Selection ==
    scanner.phase \in {"selected", "repeated"} =>
        LET list == scanner.strategies
            best == scanner.selected
        IN  /\ \E i \in 1..Len(list) : list[i] = best
            /\ \A i \in 1..Len(list) :
                  /\ list[i].confidence10 <= best.confidence10
                  /\ list[i].confidence10 = best.confidence10
                        => KindIndex(best.type) <= KindIndex(list[i].type)
            /\ scanner.phase = "repeated" => scanner.reselected = best

\* The selection has been made twice on a list where three strategies share
\* the greatest confidence and a strategy of lower confidence comes first.
C14_Witness ==
    /\ scanner.phase = "repeated"
    /\ Len(scanner.strategies) >= 4
    /\ scanner.strategies[1].confidence10 < scanner.selected.confidence10
    /\ Cardinality({ i \in 1..Len(scanner.strategies) :
            scanner.strategies[i].confidence10 = scanner.selected.confidence10 }) = 3
    /\ scanner.selected = scanner.strategies[2]

\* RevenueNormalizer.execute, called on its own, has returned.
NormalizerReturned == normalizer.phase = "returned"

\* The entry carries an error.
HasError(entry) == "error" \in DOMAIN entry /\ entry.error # ""

RECURSIVE SumValueUSD(_, _)
SumValueUSD(entries, i) ==
    IF i > Len(entries) THEN 0
    ELSE (IF HasError(entries[i]) THEN 0 ELSE entries[i].valueUSD)
         + SumValueUSD(entries, i + 1)

RECURSIVE SumValueETH(_, _)
SumValueETH(entries, i) ==
    IF i > Len(entries) THEN 0
    ELSE (IF HasError(entries[i]) THEN 0 ELSE entries[i].valueETH)
         + SumValueETH(entries, i + 1)

\* C15: the token loop makes one entry for every token, in the order of the
\* input; the entry of a token whose normalization fails has valueUSD 0,
\* valueETH 0, liquidity unknown and an error, and adds nothing to the
\* totals; the entry of every other token is the one its own answers give,
\* whatever happened to the tokens before it; and the call returns a list as
\* long as its input.
C15_TokenIsolation ==
    LET n == normalizer
    IN  /\ Len(n.normalizedTokens) <= Len(n.tokens)
        /\ \A i \in 1..Len(n.normalizedTokens) :
              LET token == n.tokens[i]
                  entry == n.normalizedTokens[i]
                  answer == n.answers[i]
              IN  /\ entry.address = token.address
                  /\ entry.amount = token.amount
                  /\ HasError(entry) <=> ~token.amount.integer
                  /\ ~token.amount.integer =>
                        /\ entry.valueUSD = 0
                        /\ entry.valueETH = 0
                        /\ entry.liquidity = "unknown"
                  /\ token.amount.integer =>
                        entry = normalizeToken(token,
                                    getTokenMetadata(answer.lookup.symbol,
                                                     answer.lookup.decimals),
                                    getTokenPrice(token.address, DexPrice,
                                                  answer.dex, answer.native))
        /\ n.totalValueUSD.mills = SumValueUSD(n.normalizedTokens, 1)
        /\ n.totalValueETH = SumValueETH(n.normalizedTokens, 1)
        /\ n.phase \in {"getMarketContext", "returned"} =>
              Len(n.normalizedTokens) = Len(n.tokens)
        /\ NormalizerReturned =>
              /\ n.output.extractedTokens = n.normalizedTokens
              /\ n.output.totalValueUSD = SumValueUSD(n.normalizedTokens, 1)
              /\ n.output.totalValueETH = toFixed(SumValueETH(n.normalizedTokens, 1), 10)

\* A call has returned whose first token failed and whose second token has
\* its value.
C15_Witness ==
    /\ NormalizerReturned
    /\ Len(normalizer.output.extractedTokens) = 2
    /\ HasError(normalizer.output.extractedTokens[1])
    /\ ~HasError(normalizer.output.extractedTokens[2])
    /\ normalizer.output.extractedTokens[2].valueUSD > 0
    /\ normalizer.output.totalValueUSD = normalizer.output.extractedTokens[2].valueUSD

\* C16: when two tokens are normalized and the calls of symbol() and
\* decimals() of the second one fail, the returned list has two entries, the
\* first with a nonzero valueUSD, the second with valueUSD 0 and an error.
C16_MetadataFailureRecorded ==
    LET n == normalizer
    IN  /\ NormalizerReturned
        /\ Len(n.tokens) = 2
        /\ n.tokens[1].amount.integer
        /\ ~n.answers[1].dex.threw
        /\ needsMetadata(n.tokens[2])
        /\ ~n.answers[2].lookup.symbol.fulfilled
        /\ ~n.answers[2].lookup.decimals.fulfilled
        => /\ Len(n.output.extractedTokens) = 2
           /\ n.output.extractedTokens[1].valueUSD # 0
           /\ n.output.extractedTokens[2].valueUSD = 0
           /\ HasError(n.output.extractedTokens[2])

\* C17: in every result netProfitUSD is totalValueUSD less gasCosts.costUSD,
\* and the three are amounts of whole cents.
C17_NetProfitConsistent ==
    NormalizerReturned =>
        LET out == normalizer.output
        IN  /\ out.netProfitUSD = out.totalValueUSD - out.gasCosts.costUSD
            /\ out.netProfitUSD % 10 = 0
            /\ out.totalValueUSD % 10 = 0
            /\ out.gasCosts.costUSD % 10 = 0

\* A result with gas costs that were rounded, a failed token and a token of
\* a value that was rounded.
C17_Witness ==
    /\ NormalizerReturned
    /\ normalizer.gas.gasUsed * normalizer.gas.gasPrice * normalizer.nativeTokenPrice
          # normalizer.output.gasCosts.costUSD * 1000
    /\ normalizer.output.gasCosts.costUSD > 0
    /\ \E i \in 1..Len(normalizer.output.extractedTokens) :
          HasError(normalizer.output.extractedTokens[i])
    /\ \E i \in 1..Len(normalizer.output.extractedTokens) :
          LET e == normalizer.output.extractedTokens[i]
          IN  ~HasError(e) /\ e.valueUSD > 0
              /\ e.valueUSD * 10 # shift10(e.amount.digits * e.priceUSD,
                                            e.amount.zeros - e.decimals + 1)

\* C18: in every result isProfitable is true exactly when the reported
\* netProfitUSD is greater than 0, and profitabilityRatio is 0 whenever the
\* reported totalValueUSD is not greater than 0.
C18_ProfitableIffPositive ==
    NormalizerReturned =>
        LET out == normalizer.output
        IN  /\ out.isProfitable <=> out.netProfitUSD > 0
            /\ out.totalValueUSD <= 0 => out.profitabilityRatio = 0

\* The risk level as the specification computes it, the net profit in mills.
StatedRiskLevel(tokens, netProfitUSD) ==
    LET lowLiquidity == { i \in 1..Len(tokens) : tokens[i].liquidity \in {"low", "very-low"} }
        highImpact == { i \in 1..Len(tokens) :
                          "priceImpact" \in DOMAIN tokens[i] /\ tokens[i].priceImpact > 500 }
        errors == { i \in 1..Len(tokens) : HasError(tokens[i]) }
        score == 2 * Cardinality(lowLiquidity) + 3 * Cardinality(highImpact)
                 + 4 * Cardinality(errors)
                 + (IF netProfitUSD < 1000 * 1000 THEN 2 ELSE 0)
                 + (IF netProfitUSD < 100 * 1000 THEN 3 ELSE 0)
    IN  IF score >= 8 THEN "very-high"
        ELSE IF score >= 5 THEN "high"
        ELSE IF score >= 2 THEN "medium"
        ELSE "low"

\* C19: the risk level of every result is that of the score 2 for every
\* token of low or very-low liquidity, 3 for every token of a price impact
\* above 0.05, 4 for every token with an error, 2 for a net profit below
\* 1000 and 3 more for one below 100: from 8 very-high, from 5 high, from 2
\* medium, else low.
C19_RiskLevel ==
    NormalizerReturned =>
        normalizer.output.summary.riskLevel
            = StatedRiskLevel(normalizer.output.extractedTokens,
                              normalizer.output.netProfitUSD)

\* The classification as the specification states it.
StatedLiquidity(liquidityUSD) ==
    IF liquidityUSD > 1000000 THEN "high"
    ELSE IF liquidityUSD > 100000 THEN "medium"
    ELSE IF liquidityUSD > 10000 THEN "low"
    ELSE "very-low"

LiquidityRank(liquidity) ==
    CASE liquidity = "very-low" -> 0
      [] liquidity = "low" -> 1
      [] liquidity = "medium" -> 2
      [] liquidity = "high" -> 3

\* The entries of tokens that were normalized.
Valued == { i \in 1..Len(normalizer.normalizedTokens) :
              ~HasError(normalizer.normalizedTokens[i]) }

\* C20: the liquidity class of every normalized token is high above
\* 1,000,000, medium above 100,000, low above 10,000 and very-low otherwise,
\* so that more liquidity never gives a lower class: 1,000,001 is high,
\* 1,000,000 and 100,001 are medium, 50,000 and 10,001 are low and 10,000 is
\* very-low.
C20_LiquidityThresholds ==
    /\ \A i \in Valued :
          LET e == normalizer.normalizedTokens[i]
          IN  /\ e.liquidity = StatedLiquidity(e.liquidityUSD)
              /\ e.liquidityUSD = 1000001 => e.liquidity = "high"
              /\ e.liquidityUSD \in {1000000, 100001} => e.liquidity = "medium"
              /\ e.liquidityUSD \in {50000, 10001} => e.liquidity = "low"
              /\ e.liquidityUSD = 10000 => e.liquidity = "very-low"
    /\ \A i, j \in Valued :
          normalizer.normalizedTokens[i].liquidityUSD
              <= normalizer.normalizedTokens[j].liquidityUSD
          => LiquidityRank(normalizer.normalizedTokens[i].liquidity)
                <= LiquidityRank(normalizer.normalizedTokens[j].liquidity)

\* Two tokens on either side of the highest threshold.
C20_Witness ==
    /\ NormalizerReturned
    /\ Valued = {1, 2}
    /\ normalizer.normalizedTokens[1].liquidityUSD = 1000000
    /\ normalizer.normalizedTokens[1].liquidity = "medium"
    /\ normalizer.normalizedTokens[2].liquidityUSD = 1000001
    /\ normalizer.normalizedTokens[2].liquidity = "high"

\* getTokenPrice, called on its own, has returned.
OracleReturned == oracle.phase = "returned"

\* The source is named in the list of sources.
Listed(sources, name) == \E i \in 1..Len(sources) : sources[i] = name

\* getTokenPriceFromChainlink answered a price above 0.
OracleSucceeded == ~oracle.chainlink.threw /\ oracle.chainlink.price > 0

\* getTokenPriceFromDEX answered a price above 0.
ExchangeSucceeded == ~oracle.dex.threw /\ oracle.dex.priceUSD > 0

\* C21: the confidence getTokenPrice returns is 40 if the oracle source
\* succeeded, plus 30 if the exchange source succeeded, plus 20 if the price
\* was converted by the native price, plus 10 for a liquidity above
\* 1,000,000, plus 10 if both sources are present, and at most 100; so it is
\* between 0 and 100.
C21_ConfidenceFormula ==
    OracleReturned =>
        LET r == oracle.result
            sum == (IF OracleSucceeded THEN 40 ELSE 0)
                   + (IF ExchangeSucceeded THEN 30 ELSE 0)
                   + (IF oracle.native # 0 THEN 20 ELSE 0)
                   + (IF r.liquidityUSD > 1000000 THEN 10 ELSE 0)
                   + (IF OracleSucceeded /\ ExchangeSucceeded THEN 10 ELSE 0)
        IN  /\ r.confidence = (IF sum > 100 THEN 100 ELSE sum)
            /\ r.confidence \in 0..100

\* A price from the exchange alone, converted, with deep liquidity.
C21_Witness ==
    /\ OracleReturned
    /\ ExchangeSucceeded
    /\ oracle.native # 0
    /\ oracle.result.liquidityUSD > 1000000
    /\ oracle.result.confidence = 60

\* C22: getTokenPrice consults both sources whatever the other one did: each
\* source that answered a price is used and named, and when neither did the
\* result is priceUSD 0, priceETH 0, confidence 0 and no sources; the call
\* never throws.
C22_SourcesIndependent ==
    /\ oracle.phase \in {"idle", "chainlink", "dex", "native", "returned"}
    /\ oracle.phase \in {"native", "returned"} =>
          oracle.chainlink # NoResult /\ oracle.dex # NoResult
    /\ OracleReturned =>
          LET r == oracle.result
          IN  /\ ExchangeSucceeded <=> Listed(r.sources, "DEX")
              /\ OracleSucceeded <=> Listed(r.sources, "Chainlink")
              /\ ExchangeSucceeded \/ OracleSucceeded => r.priceUSD > 0
              /\ ~ExchangeSucceeded /\ ~OracleSucceeded =>
                    /\ r.priceUSD = 0
                    /\ r.priceETH = 0
                    /\ r.confidence = 0
                    /\ r.sources = << >>

\* The oracle source threw and the price of the exchange was used.
C22_Witness ==
    /\ OracleReturned
    /\ oracle.chainlink.threw
    /\ Listed(oracle.result.sources, "DEX")
    /\ oracle.result.priceUSD = oracle.dex.priceUSD

\* The address is one of the tokens of tokenFeeds, in whatever case its
\* letters are written.
OnAllowList(address) == \E feed \in TokenFeeds : feed.hex = address.hex

\* C23: for a token of the allow-list whose feed answers a price above 0
\* getTokenPrice names the oracle among its sources and adds its 40 to the
\* confidence; for a token that is not on the allow-list the oracle is never
\* named.
C23_AllowListedUsesOracle ==
    OracleReturned =>
        /\ OnAllowList(oracle.address) /\ ~oracle.feed.threw /\ oracle.feed.price > 0
              => /\ Listed(oracle.result.sources, "Chainlink")
                 /\ oracle.result.confidence >= 60
        /\ ~OnAllowList(oracle.address)
              => ~Listed(oracle.result.sources, "Chainlink")

\* C29: every result of getTokenPrice has a confidence of 0, 50, 60 or 100;
\* the confidence is 0 exactly when there are no sources, which is exactly
\* when priceUSD is 0; and priceETH is above 0 exactly when priceUSD is.
C29_ConfidenceValues ==
    OracleReturned =>
        LET r == oracle.result
        IN  /\ r.confidence \in {0, 50, 60, 100}
            /\ r.confidence = 0 <=> r.sources = << >>
            /\ r.sources = << >> <=> r.priceUSD = 0
            /\ r.priceETH > 0 <=> r.priceUSD > 0

\* The smallest price, converted by the fallback of getNativeTokenPrice.
C29_Witness ==
    /\ OracleReturned
    /\ oracle.result.priceUSD = 1
    /\ oracle.native = FallbackNativePrice
    /\ oracle.result.priceETH > 0
    /\ oracle.result.confidence = 50

\* The status a settled startAnalysis leaves behind, by the outcomes of its
\* own storage calls.
OwnStatus(s) ==
    IF pc[s] = "resolved" THEN "completed"
    ELSE IF "failed" \notin storeError[s] THEN "failed"
    ELSE IF "running" \in storeError[s] THEN "pending"
    ELSE "running"

\* The exploit discoveries of session s.
DiscoveriesOf(s) ==
    { i \in 1..Len(discoveries) : discoveries[i].sessionId = s }

\* The step is one of session s.
StepOf(s) == pc'[s] # pc[s]

\* C24: concurrent sessions are independent: no step of a session changes
\* the status, the activeSessions entry, the sandbox or the discoveries of
\* another one, and what a session ends with (its status, its discovery or
\* the lack of one, its sandbox) is given by the outcomes of its own calls.
C24_SessionsIndependent ==
    /\ [](\A s \in Sessions :
            /\ sandbox[s] # "none" => harness[s] = "real"
            /\ Cardinality(DiscoveriesOf(s)) <= 1
            /\ \A i \in DiscoveriesOf(s) :
                  discoveries[i] = discoveryOf(s, exploitResult[s])
            /\ Settled(s) =>
                  /\ status[s] = OwnStatus(s)
                  /\ HasDiscovery(s) <=>
                        /\ "createExploitDiscovery" \in InvokedStages(s)
                        /\ stageError[s] # "createExploitDiscovery")
    /\ [][\A s \in Sessions : StepOf(s) =>
             \A o \in Sessions \ {s} :
                 /\ status'[o] = status[o]
                 /\ history'[o] = history[o]
                 /\ (o \in activeSessions') <=> (o \in activeSessions)
                 /\ sandbox'[o] = sandbox[o]
                 /\ teardowns'[o] = teardowns[o]
                 /\ Cardinality(DiscoveriesOf(o)') = Cardinality(DiscoveriesOf(o))
                 /\ pc'[o] = pc[o]]_vars

\* One session has failed at a stage and the other has completed with a
\* discovery after a run of the real harness.
C24_Witness ==
    /\ Settled("s1") /\ Settled("s2")
    /\ status["s1"] = "failed"
    /\ stageError["s1"] # "none"
    /\ status["s2"] = "completed"
    /\ HasDiscovery("s2")
    /\ sandbox["s2"] = "removed"
    /\ sandbox["s1"] = "none"

\* A stage of the pipeline of session s has been called and has not
\* returned.
InProgress(s) ==
    pc[s] \notin {"none", "notCreated", "updateRunning", "updateCompleted",
                  "updateFailed", "resolved", "rejected"}

\* C25: the stages of a session are started in the order source fetch,
\* constructor parameters, state read, sanitize, execute, normalize,
\* discovery write; a stage is started only in the step in which the stage
\* before it returns, so that the only stage in progress is the one started
\* last; and normalize is started only after execute has returned with
\* success.
C25_StagesSequential ==
    /\ [](\A s \in Sessions :
            /\ IsPrefix(invoked[s], Stages)
            /\ InProgress(s) => invoked[s] # << >>
            /\ (\E i \in 1..Len(Stages) : pc[s] = Stages[i]) =>
                  pc[s] = invoked[s][Len(invoked[s])]
            /\ "revenue_normalizer" \in InvokedStages(s) =>
                  /\ Executed(s)
                  /\ executionResult[s].success
                  /\ exploitResult[s] # NoResult)
    /\ [][\A s \in Sessions : invoked'[s] # invoked[s] =>
             /\ Len(invoked'[s]) = Len(invoked[s]) + 1
             /\ pc'[s] = invoked'[s][Len(invoked'[s])]
             /\ stageError'[s] = "none"
             /\ invoked[s] # << >> => InProgress(s)]_vars

\* A session has run all seven stages and is completed.
C25_Witness ==
    \E s \in Sessions :
        /\ invoked[s] = Stages
        /\ status[s] = "completed"
        /\ executionResult[s].success

\* C26: a session is in activeSessions only while its stored status is
\* running, and once its startAnalysis has settled, resolved or rejected, it
\* is no longer there.
C26_ActiveOnlyWhileRunning ==
    \A s \in Sessions :
        /\ s \in activeSessions => status[s] = "running"
        /\ Settled(s) => s \notin activeSessions

\* C27: every session whose startAnalysis is called has a stored status of
\* completed or failed in the end, provided every call it awaits settles.
C27_EventuallyTerminal ==
    \A s \in Sessions :
        (pc[s] = "updateRunning") ~> (status[s] \in {"completed", "failed"})

\* The kinds whose strategies are scaled down by their generators.
DeflatedKinds == {"accessControl", "integerOverflow", "uncheckedCall"}

\* C28: on the simulator path a strategy of confidence 60 or less never
\* succeeds and one of confidence 80 or more always does; every strategy of
\* kind accessControl, integerOverflow or uncheckedCall has a confidence
\* below 60, so that no simulated run is reported, or recorded as a
\* discovery, with one of these kinds as its exploitType.
C28_SimulatorNeverFindsDeflated ==
    scanner.origin = "scan" =>
        /\ \A i \in 1..Len(scanner.strategies) :
              scanner.strategies[i].type \in DeflatedKinds =>
                  scanner.strategies[i].confidence10 < 600
        /\ scanner.phase = "simulated" =>
              /\ scanner.selected.confidence10 <= 600 => ~scanner.result.exploitFound
              /\ scanner.selected.confidence10 >= 800 => scanner.result.exploitFound
              /\ scanner.result.exploitFound =>
                    scanner.result.exploitType \notin DeflatedKinds
              /\ proceedsToRevenue(scanner.result) =>
                    discoveryOf("s1", scanner.result).exploitType \notin DeflatedKinds

\* The strongest access-control strategy there is (52.8) was selected and
\* run on the simulator.
C28_Witness ==
    /\ scanner.phase = "simulated"
    /\ scanner.selected.type = "accessControl"
    /\ scanner.selected.confidence10 = 528
    /\ ~scanner.result.exploitFound

\* C30: in every pipeline run the normalizer is called without the gas of
\* the execution and without a gas price: the gas cost of its result is 0
\* and marked estimated, and netProfitUSD equals totalValueUSD, whatever gas
\* the execution used.
C30_PipelineIgnoresGas ==
    \A s \in Sessions :
        revenue[s] # NoResult =>
            /\ revenue[s].gasCosts.gasUsed = 0
            /\ revenue[s].gasCosts.gasPrice = 0
            /\ revenue[s].gasCosts.costUSD = 0
            /\ revenue[s].gasCosts.costETH = 0
            /\ revenue[s].gasCosts.estimated
            /\ revenue[s].netProfitUSD = revenue[s].totalValueUSD
            /\ revenue[s].netProfitETH = revenue[s].totalValueETH

\* A run whose execution used gas and whose tokens have a value.
C30_Witness ==
    \E s \in Sessions :
        /\ revenue[s] # NoResult
        /\ exploitResult[s].gasUsed > 0
        /\ revenue[s].totalValueUSD > 0
        /\ revenue[s].gasCosts.costUSD = 0
        /\ revenue[s].netProfitUSD = revenue[s].totalValueUSD
        /\ status[s] = "completed"

====
